---------------------------- MODULE Spec2Model ----------------------------
(***************************************************************************)
(* Task automation engine of claude-code-viewer.                           *)
(*                                                                         *)
(* The module models the task registry (TaskLifecycleService), the two     *)
(* versions of the controller's per-task message loop that the repository  *)
(* holds (ClaudeCodeTaskController.ts, which hands result messages to      *)
(* SpecWorkflowHandler, and its state-driven revision, which decides with  *)
(* ClaudeCodeStateDetector + TaskStateOrchestrator), the continuation      *)
(* handler with its timers, abortTask, the follow-up messages of a client  *)
(* (startOrContinueTask on an alive session), TaskMonitoringService,       *)
(* which reads the spec-workflow progress out of a session transcript, and *)
(* AutomationController, which starts, monitors and cancels automations.   *)
(*                                                                         *)
(* Specifications:                                                         *)
(*   SpecRegistry  the public operations of TaskLifecycleService, called   *)
(*                 in any order with any argument;                         *)
(*   Spec          the controller of ClaudeCodeTaskController.ts serving   *)
(*                 one client request and its follow-up messages, with     *)
(*                 abortTask called at any time;                           *)
(*   SpecState     the state-driven controller serving one client request  *)
(*                 and the tasks its restarts start;                       *)
(*   SpecHandler   Spec plus SpecWorkflowHandler.handleCompletion called   *)
(*                 directly on registered alive tasks with the callbacks   *)
(*                 the controller wires, the handlers' timers, and the     *)
(*                 tasks the continuations start.  The controller's own    *)
(*                 loop never makes that call, so SpecHandler has more     *)
(*                 behaviours than the controller: it serves to check      *)
(*                 what the handlers never do, and a state reached only    *)
(*                 through that call is no evidence of a defect;           *)
(*   SpecFollowUp  SpecState plus the follow-up messages of the client;    *)
(*   SpecMonitor   monitorSession called on transcripts of tool calls and  *)
(*                 tool results, by either version of the service;         *)
(*   SpecSweep     SpecState plus BackgroundTaskService: initialize,       *)
(*                 start and stop called at any time, and the timer that   *)
(*                 calls checkTaskTimeouts on the controller's alive       *)
(*                 tasks while the service is running;                     *)
(*   SpecExecutor  TaskOrchestrator over the TaskExecutor that continues a *)
(*                 task by a message stream of its own, serving start,     *)
(*                 follow-up and abort requests;                           *)
(*   SpecAutomation  AutomationController over the controller of Spec:     *)
(*                 startAutomation and cancelAutomation called at any      *)
(*                 time, the monitoring timers and their reads;            *)
(*   SpecMonitoring  one automation from its start to its end, with more   *)
(*                 firings of its monitoring timer.                        *)
(*                                                                         *)
(* In every specification over a controller the process-exit hook          *)
(* (abortAllAliveTasks) may run at any time: it triggers the token of      *)
(* every alive task and changes no status.                                 *)
(***************************************************************************)
EXTENDS Integers, Sequences, FiniteSets, TLC

VARIABLES
    tasks,      \* TaskLifecycleService.tasks: the registry, in insertion order
    events,     \* the last batch of events handed to eventBus.emit, in order
    last,       \* the last registry or abortTask call from outside, and whether it threw
    nextId,     \* the next identifier ulid() hands out
    loops,      \* per task id: the state of its handleExecution closure
    conts,      \* the handlers' pending asynchronous work (awaits and timers)
    now,        \* Date.now(), in minutes
    monitor,    \* a session's transcript, and what monitorSession made of it
    sweeps,     \* BackgroundTaskService: the checkTaskTimeouts calls under way
    streams,    \* TaskExecutor: the processMessageStream closures, in start order
    automation, \* AutomationController: its active tasks, timers and pending calls
    backgroundTaskService
                \* BackgroundTaskService: taskController is set, isRunning

vars ==
    <<tasks, events, last, nextId, loops, conts, now, monitor, sweeps, streams,
      automation, backgroundTaskService>>

---------------------------------------------------------------------------
(* Bounds of the model *)

\* tasks that can be created (identifiers ulid() hands out)
MaxTasks == 2
\* messages one agent stream delivers at most
MaxMsgs == 2
\* the clock stops here
MaxTime == 4
\* pending handler activities (awaits and timers) at any time
MaxConts == 2
\* follow-up messages one task is handed
MaxFollowUps == 1

(* Program constants *)

\* ClaudeCodeStateDetector.hasTimedOut: 120 * 1000 ms, in minutes
TimeoutMinutes == 2

---------------------------------------------------------------------------
(* Values *)

TaskIds == 1..MaxTasks

\* undefined, for a task that find did not find
NoTask == [id |-> 0]

\* undefined, for a number the code never set
Undefined == -1

AliveStatuses == {"running", "paused"}
TerminalStatuses == {"completed", "failed"}

\* What a start request carries: TaskSessionConfig (without sessionId) and
\* the prompt.  "" is the empty prompt, which is falsy.
Setups ==
    { [projectId |-> "p1", cwd |-> "/w1", completionCondition |-> "spec-workflow",
       autoContinue |-> TRUE, prompt |-> "P"],
      [projectId |-> "p1", cwd |-> "/w1", completionCondition |-> "spec-workflow",
       autoContinue |-> FALSE, prompt |-> "P"],
      [projectId |-> "p2", cwd |-> "/w2", completionCondition |-> "spec-workflow",
       autoContinue |-> TRUE, prompt |-> ""],
      [projectId |-> "p2", cwd |-> "/w2", completionCondition |-> "manual",
       autoContinue |-> FALSE, prompt |-> "P"] }

NoSetup == [projectId |-> "", cwd |-> "", completionCondition |-> "",
            autoContinue |-> FALSE, prompt |-> ""]

\* A progress summary {total, completed} of the tracked tool, or none
NoReport == [found |-> FALSE, total |-> 0, completed |-> 0]
Report(total, completed) ==
    [found |-> TRUE, total |-> total, completed |-> completed]

NoMsg == [type |-> "none", uuid |-> 0, session_id |-> 0, error |-> FALSE,
          contentError |-> FALSE]

\* The shapes of message the stream delivers: type, whether it carries a
\* uuid, whether it carries an error field, and the progress summary a
\* tool result inside it reports.
MsgShapes ==
    { [type |-> "system",    hasUuid |-> FALSE, error |-> FALSE, report |-> NoReport],
      [type |-> "user",      hasUuid |-> TRUE,  error |-> FALSE, report |-> Report(2, 1)],
      [type |-> "user",      hasUuid |-> TRUE,  error |-> FALSE, report |-> Report(2, 2)],
      [type |-> "assistant", hasUuid |-> TRUE,  error |-> FALSE, report |-> NoReport],
      [type |-> "assistant", hasUuid |-> FALSE, error |-> FALSE, report |-> NoReport],
      [type |-> "assistant", hasUuid |-> TRUE,  error |-> TRUE,  report |-> NoReport],
      [type |-> "result",    hasUuid |-> TRUE,  error |-> FALSE, report |-> NoReport] }

\* The k-th message of the stream of session s: its uuid is its position.
Message(shape, k, s) ==
    [type |-> shape.type, uuid |-> IF shape.hasUuid THEN k ELSE 0,
     session_id |-> s, error |-> shape.error, contentError |-> FALSE]

---------------------------------------------------------------------------
(* TaskLifecycleService: operations thread a registry value                *)
(*   [tasks, events, raised]                                               *)
(* raised means the operation threw; a thrown operation leaves tasks and   *)
(* events as they were when it threw.                                      *)

Reg(ts) == [tasks |-> ts, events |-> <<>>, raised |-> FALSE]

Throw(r) == [r EXCEPT !.raised = TRUE]

\* a catch block: the exception is consumed
Caught(r) == [r EXCEPT !.raised = FALSE]

emit(r, event) == [r EXCEPT !.events = Append(@, event)]

isAlive(task) == task.status \in AliveStatuses

aliveTasks(ts) == SelectSeq(ts, isAlive)

\* Array.prototype.findIndex, 1-based; 0 for -1
findIndex(ts, id) ==
    IF \E i \in 1..Len(ts) : ts[i].id = id
    THEN CHOOSE i \in 1..Len(ts) :
            /\ ts[i].id = id
            /\ \A j \in 1..(i - 1) : ts[j].id # id
    ELSE 0

findTaskById(ts, id) ==
    LET i == findIndex(ts, id) IN IF i = 0 THEN NoTask ELSE ts[i]

findTaskBySessionIdAll(ts, sessionId) ==
    IF \E i \in 1..Len(ts) : ts[i].sessionId = sessionId
    THEN ts[CHOOSE i \in 1..Len(ts) : ts[i].sessionId = sessionId]
    ELSE NoTask

findTaskBySessionId(ts, sessionId) ==
    LET alive == aliveTasks(ts) IN
    IF \E i \in 1..Len(alive) : alive[i].sessionId = sessionId
    THEN alive[CHOOSE i \in 1..Len(alive) :
                  /\ alive[i].sessionId = sessionId
                  /\ \A j \in 1..(i - 1) : alive[j].sessionId # sessionId]
    ELSE NoTask

emitTaskChanged(r) ==
    emit(r, [type |-> "task_changed", data |-> aliveTasks(r.tasks)])

\* Object.assign(target, source)
ObjectAssign(target, source) ==
    [f \in (DOMAIN target) \cup (DOMAIN source) |->
        IF f \in DOMAIN source THEN source[f] ELSE target[f]]

addTask(r, task) ==
    emitTaskChanged([r EXCEPT !.tasks = Append(@, task)])

updateTaskEmitFirst(r, updatedTask) ==
    LET index == findIndex(r.tasks, updatedTask.id) IN
    IF index = 0
    THEN Throw(r)
    ELSE [emitTaskChanged(r)
            EXCEPT !.tasks[index] = ObjectAssign(@, updatedTask)]

updateTask(r, updatedTask) ==
    LET index == findIndex(r.tasks, updatedTask.id) IN
    IF index = 0
    THEN Throw(r)
    ELSE emitTaskChanged(
            [r EXCEPT !.tasks[index] = ObjectAssign(@, updatedTask)])

completeTaskAnyStatus(r, taskId) ==
    LET task == findTaskById(r.tasks, taskId) IN
    IF task = NoTask
    THEN Throw(r)
    ELSE updateTask(r, [task EXCEPT !.status = "completed"])

completeTask(r, taskId) ==
    LET task == findTaskById(r.tasks, taskId) IN
    IF task = NoTask
    THEN Throw(r)
    ELSE IF task.status = "running" \/ task.status = "paused"
         THEN updateTask(r, [task EXCEPT !.status = "completed"])
         ELSE Throw(r)

pauseTaskAnyStatus(r, taskId) ==
    LET task == findTaskById(r.tasks, taskId) IN
    IF task = NoTask
    THEN Throw(r)
    ELSE updateTask(r, [task EXCEPT !.status = "paused"])

pauseTask(r, taskId) ==
    LET task == findTaskById(r.tasks, taskId) IN
    IF task = NoTask \/ (task.status # "running" /\ task.status # "paused")
    THEN Throw(r)
    ELSE updateTask(r, [task EXCEPT !.status = "paused"])

failTask(r, taskId) ==
    LET task == findTaskById(r.tasks, taskId) IN
    IF task = NoTask
    THEN Throw(r)
    ELSE updateTask(r, [task EXCEPT !.status = "failed"])

---------------------------------------------------------------------------
(* The controller's per-task state *)

\* a running task as the controller builds it from a message
RunningTask(id, setup, sessionId, userMessageId, lastActivity) ==
    [status |-> "running", id |-> id, projectId |-> setup.projectId,
     cwd |-> setup.cwd, completionCondition |-> setup.completionCondition,
     originalPrompt |-> setup.prompt, autoContinue |-> setup.autoContinue,
     lastActivity |-> lastActivity, userMessageId |-> userMessageId,
     sessionId |-> sessionId]

\* handleExecution's closure for a task that was never created.
\*   pc          none | streaming | detecting | restarting | ended | caught
\*   setup       the pending task's configuration and prompt
\*   session     the session the query runs in
\*   resolved    the closure's flag
\*   settled     the caller's promise: pending | resolved | rejected
\*   aborted     abortController.signal.aborted
\*   n           messages consumed
\*   idSeen      a user/assistant message with a uuid has been delivered
\*   reported    the last progress summary the session's transcript holds
\*   currentTask, lastMessage, finalExecuted   the closure's variables
\*   execs       per message position, how often a decision was executed for it
\*   claudeState, atEnd   the decision suspended on its transcript read
\*   child       the task a restart started, 0 if none
\*   followUps   follow-up messages handed to the task's message generator
\*   firstMessage   the generator's first-message promise: pending | resolved
\*   waiting     continuing callers blocked on the first-message promise
LoopNone ==
    [pc |-> "none", setup |-> NoSetup, baseSessionId |-> 0,
     session |-> 0, resolved |-> FALSE, settled |-> "pending",
     aborted |-> FALSE, n |-> 0, idSeen |-> FALSE, reported |-> NoReport,
     currentTask |-> NoTask, lastMessage |-> NoMsg, finalExecuted |-> FALSE,
     execs |-> [k \in 1..(MaxMsgs + 1) |-> 0],
     claudeState |-> "", atEnd |-> FALSE, child |-> 0,
     followUps |-> 0, firstMessage |-> "pending", waiting |-> 0]

\* createPendingTask + executeTask up to the first await of the stream.
\* A query without resume runs in a session of its own, numbered like
\* the task.
LoopStart(id, setup, baseSessionId) ==
    [LoopNone EXCEPT !.pc = "streaming", !.setup = setup,
                     !.baseSessionId = baseSessionId, !.session = id]

\* startNewTask: the registry is untouched, a loop starts
startNewTask(ls, id, setup, baseSessionId) ==
    [ls EXCEPT ![id] = LoopStart(id, setup, baseSessionId)]

\* createMessageGenerator gives each task its input side: setNextMessage
\* hands a follow-up message to the generator the agent reads from, and the
\* first-message promise blocks a continuing caller until the loop resolves
\* it; setFirstMessagePromise replaces it by a pending one.
setNextMessage(l) == [l EXCEPT !.followUps = @ + 1]

resolveFirstMessage(l) ==
    [l EXCEPT !.firstMessage = "resolved", !.waiting = 0]

\* await task.awaitFirstMessage(): the caller goes on at once when the
\* promise is resolved, and waits for it otherwise
awaitFirstMessage(l) ==
    IF l.firstMessage = "resolved" THEN l ELSE [l EXCEPT !.waiting = @ + 1]

setFirstMessagePromise(l) == [l EXCEPT !.firstMessage = "pending"]

\* the configuration a continuation hands to startTask: the task's own
TaskSetup(task) ==
    [projectId |-> task.projectId, cwd |-> task.cwd,
     completionCondition |-> task.completionCondition,
     autoContinue |-> task.autoContinue, prompt |-> task.originalPrompt]

\* the stream's side of consuming a message: count it, note an identifier,
\* extend the transcript
Delivered(l, shape, message) ==
    [l EXCEPT !.n = @ + 1,
              !.idSeen = @ \/ ((shape.type = "user" \/ shape.type = "assistant")
                               /\ shape.hasUuid),
              !.reported = IF shape.report.found THEN shape.report ELSE @,
              !.lastMessage = message]

\* handleExecutionError: reject an unresolved caller, fail a registered task
handleExecutionError(r, l, id) ==
    LET existingTask == findTaskById(r.tasks, id)
        r1 == IF existingTask # NoTask
              THEN failTask(Caught(r), id)
              ELSE Caught(r)
    IN [reg |-> r1,
        loop |-> [l EXCEPT !.pc = "caught",
                           !.settled = IF l.resolved THEN @ ELSE "rejected"]]

\* no session read yet: an empty transcript, monitorSession not called
NoMonitor ==
    [session |-> <<>>, called |-> "", progress |-> NoReport, warnings |-> <<>>]

\* automations a client asks for, by task id
MaxAutomations == 1

AutomationIds == 1..MaxAutomations

\* AutomationController after construction: no active task object, an
\* empty activeTaskMap, no call waiting, nothing emitted, nothing returned
NoAutomation ==
    [objects |-> <<>>, map |-> [id \in AutomationIds |-> 0],
     starts |-> <<>>, log |-> <<>>, ticks |-> 0,
     returned |-> [op |-> "none", id |-> 0, value |-> FALSE]]

---------------------------------------------------------------------------
(* Initial state: a constructed controller, no task, no timer *)

Init ==
    /\ tasks = <<>>
    /\ events = <<>>
    /\ last = [op |-> "none", arg |-> 0, raised |-> FALSE]
    /\ nextId = 1
    /\ loops = [t \in TaskIds |-> LoopNone]
    /\ conts = <<>>
    /\ now = 1
    /\ monitor = NoMonitor
    /\ sweeps = <<>>
    /\ streams = <<>>
    /\ automation = NoAutomation
    /\ backgroundTaskService = [taskController |-> FALSE, isRunning |-> FALSE]

\* the bus after a step that emitted r.events: a step that emits nothing
\* leaves the last batch in place
Emitted(r) == IF r.events = <<>> THEN events ELSE r.events

Step(op, arg, raised) == last' = [op |-> op, arg |-> arg, raised |-> raised]

\* abortAllAliveTasks(): the token of every alive task of the registry is
\* triggered; no status changes and nothing is emitted
abortAllAliveTasks(ts, ls) ==
    [t \in DOMAIN ls |->
       IF \E i \in 1..Len(ts) : ts[i].id = t /\ isAlive(ts[i])
       THEN [ls[t] EXCEPT !.aborted = TRUE]
       ELSE ls[t]]

\* the process-exit hook of the controller, or a direct call
AbortAllAliveTasks ==
    /\ loops' = abortAllAliveTasks(tasks, loops)
    /\ UNCHANGED <<tasks, events, last, nextId, conts, now, monitor, sweeps,
                   backgroundTaskService, streams, automation>>

---------------------------------------------------------------------------
(* SpecRegistry: the registry's public operations, called directly *)

RegistrySetup == CHOOSE s \in Setups : s.autoContinue /\ s.prompt # ""

Commit(op, arg, r) ==
    /\ tasks' = r.tasks
    /\ events' = Emitted(r)
    /\ Step(op, arg, r.raised)
    /\ UNCHANGED <<nextId, loops, conts, now, monitor, sweeps,
                   backgroundTaskService, streams, automation>>

CallAddTask(id) ==
    /\ findTaskById(tasks, id) = NoTask
    /\ Commit("addTask", id,
              addTask(Reg(tasks), RunningTask(id, RegistrySetup, id, 1, now)))

CallUpdateTask(id, status) ==
    LET existing == findTaskById(tasks, id)
        updated == IF existing = NoTask
                   THEN [RunningTask(id, RegistrySetup, id, 1, now)
                            EXCEPT !.status = status]
                   ELSE [existing EXCEPT !.status = status]
    IN Commit("updateTask", id, updateTask(Reg(tasks), updated))

CallCompleteTask(id) ==
    Commit("completeTask", id, completeTask(Reg(tasks), id))

CallPauseTask(id) ==
    Commit("pauseTask", id, pauseTask(Reg(tasks), id))

CallFailTask(id) ==
    Commit("failTask", id, failTask(Reg(tasks), id))

NextRegistry ==
    \/ \E id \in TaskIds : CallAddTask(id)
    \/ \E id \in TaskIds, s \in AliveStatuses \cup TerminalStatuses :
          CallUpdateTask(id, s)
    \/ \E id \in TaskIds : CallCompleteTask(id)
    \/ \E id \in TaskIds : CallPauseTask(id)
    \/ \E id \in TaskIds : CallFailTask(id)
    \/ AbortAllAliveTasks

SpecRegistry == Init /\ [][NextRegistry]_vars

---------------------------------------------------------------------------
(* SpecWorkflowHandler and SessionContinuationHandler                      *)
(*                                                                         *)
(* conts holds what the handlers left pending:                             *)
(*   completion    handleCompletion awaiting getTaskProgress               *)
(*   continuation  the timer handleAutoContinue armed                      *)
(*   starting      the timer's callback awaiting startTask                 *)
(*   fallback      the timer setFallbackNavigation armed                   *)
(* task is the handler's currentTask, caller the loop that awaits the      *)
(* handler (0: called directly), child the task startTask is creating.     *)

Cont(kind, task, caller, reason, child) ==
    [kind |-> kind, task |-> task, caller |-> caller, reason |-> reason,
     child |-> child]

RemoveAt(s, i) == SubSeq(s, 1, i - 1) \o SubSeq(s, i + 1, Len(s))

\* what reading the session's transcript can give: an exception, or the
\* last progress summary in it (none if there is none)
ProgressOutcomes(reported) ==
    { [throws |-> TRUE, report |-> NoReport],
      [throws |-> FALSE, report |-> reported] }

\* a completion test that takes an empty workflow for a completed one: not
\* what the service does
isAllTasksCompletedOrEmpty(progress) == progress.total = progress.completed

\* TaskMonitoringService.isAllTasksCompleted
isAllTasksCompleted(progress) ==
    progress.total > 0 /\ progress.total = progress.completed

canAutoContinue(currentTask) ==
    currentTask.autoContinue /\ currentTask.originalPrompt # ""

handleManualContinuation(r, currentTask, reason) ==
    emit(r, [type |-> "navigate_to_project",
             data |-> [projectId |-> currentTask.projectId,
                       taskId |-> currentTask.id,
                       originalPrompt |-> currentTask.originalPrompt,
                       reason |-> reason, autoContinue |-> FALSE]])

\* a failure handler that emits nothing: not what the handler does
handleContinuationFailureSilent(r, currentTask) == r

handleContinuationFailure(r, currentTask) ==
    emit(r, [type |-> "navigate_to_project",
             data |-> [projectId |-> currentTask.projectId,
                       taskId |-> currentTask.id,
                       originalPrompt |-> currentTask.originalPrompt,
                       reason |-> "auto_continue_failed",
                       autoContinue |-> FALSE]])

navigateToSession(r, projectId, newTask) ==
    emit(r, [type |-> "navigate_to_session",
             data |-> [projectId |-> projectId,
                       sessionId |-> newTask.sessionId,
                       userMessageId |-> newTask.userMessageId,
                       reason |-> "auto_continue_success"]])

\* handleAutoContinue: arm the timer, touch nothing else
handleAutoContinue(r, cs, currentTask, reason) ==
    IF ~currentTask.autoContinue \/ currentTask.originalPrompt = ""
    THEN [reg |-> Throw(r), conts |-> cs]
    ELSE [reg |-> r,
          conts |-> Append(cs, Cont("continuation", currentTask, 0, reason, 0))]

\* handleWorkflowIncomplete / handleNoWorkflowActivity
handleWorkflowIncomplete(r, cs, currentTask, autoReason, manualReason) ==
    IF canAutoContinue(currentTask)
    THEN handleAutoContinue(r, cs, currentTask, autoReason)
    ELSE [reg |-> pauseTask(
                    handleManualContinuation(r, currentTask, manualReason),
                    currentTask.id),
          conts |-> cs]

\* handleCompletion after getTaskProgress settled, with its catch block
handleCompletion(r, cs, currentTask, outcome) ==
    LET body ==
          IF outcome.throws
          THEN [reg |-> Throw(r), conts |-> cs]
          ELSE IF outcome.report.found /\ isAllTasksCompleted(outcome.report)
          THEN [reg |-> completeTask(r, currentTask.id), conts |-> cs]
          ELSE IF outcome.report.found
          THEN handleWorkflowIncomplete(r, cs, currentTask,
                   "spec_workflow_incomplete", "spec_workflow_incomplete")
          ELSE handleWorkflowIncomplete(r, cs, currentTask,
                   "no_spec_workflow_activity", "spec_workflow_no_activity")
    IN IF body.reg.raised
       THEN [reg |-> completeTask(Caught(body.reg), currentTask.id),
             conts |-> body.conts]
       ELSE body

\* handleCompletion up to its await: a task without session id is completed
\* at once
handleCompletionNoSession(r, currentTask) ==
    LET r1 == completeTask(r, currentTask.id) IN
    IF r1.raised THEN completeTask(Caught(r1), currentTask.id) ELSE r1

---------------------------------------------------------------------------
(* ClaudeCodeTaskController *)

\* a user or assistant message with a uuid gives a running task, any
\* other message undefined
updateTaskFromMessage(id, l, message) ==
    IF (message.type = "user" \/ message.type = "assistant") /\ message.uuid # 0
    THEN RunningTask(id, l.setup, message.session_id, message.uuid, Undefined)
    ELSE NoTask

\* handleDefaultTask: pause the task and renew its first-message promise
handleDefaultTask(r, l, currentTask) ==
    LET r1 == pauseTask(r, currentTask.id) IN
    [reg |-> r1, loop |-> IF r1.raised THEN l ELSE setFirstMessagePromise(l)]

\* the caller's promise is resolved, and the task registered, on the first
\* task a message yields
shouldRegisterEveryTask(currentTask, resolved) == currentTask # NoTask

shouldRegister(currentTask, resolved) == currentTask # NoTask /\ ~resolved

\* the loop's step is over: either it goes on from l, or what it called
\* threw and the catch block of handleExecution runs
LoopCommit(t, r, l, ls) ==
    IF r.raised
    THEN LET h == handleExecutionError(r, l, t) IN
         /\ tasks' = h.reg.tasks
         /\ events' = Emitted(h.reg)
         /\ loops' = [ls EXCEPT ![t] = h.loop]
    ELSE /\ tasks' = r.tasks
         /\ events' = Emitted(r)
         /\ loops' = [ls EXCEPT ![t] = l]

\* findExistingTask: an alive task of that session; sessionId 0 is none
findExistingTaskRunning(ts, sessionId) ==
    LET task == IF sessionId # 0
                THEN findTaskBySessionId(ts, sessionId)
                ELSE NoTask
    IN IF task # NoTask /\ task.status = "running" THEN task ELSE NoTask

findExistingTask(ts, sessionId) ==
    IF sessionId # 0 THEN findTaskBySessionId(ts, sessionId) ELSE NoTask

\* continueExistingTask: the message goes to the task's generator, and the
\* task itself is returned once its first-message promise is resolved
continueExistingTask(ls, task) ==
    [loops |-> [ls EXCEPT ![task.id] = awaitFirstMessage(setNextMessage(@))],
     task |-> task.id,
     blocked |-> ls[task.id].firstMessage = "pending"]

\* startOrContinueTask(sessionConfig, message), id being what ulid() would
\* hand out.  The registry is not touched: a new task is registered by its
\* loop.  task is the id of the task the call's promise resolves to.
startOrContinueTask(ts, ls, id, setup, sessionId) ==
    LET existingTask == findExistingTask(ts, sessionId) IN
    IF existingTask # NoTask
    THEN LET c == continueExistingTask(ls, existingTask) IN
         [loops |-> c.loops, nextId |-> id, task |-> c.task,
          blocked |-> c.blocked]
    ELSE [loops |-> startNewTask(ls, id, setup, sessionId),
          nextId |-> id + 1, task |-> id, blocked |-> TRUE]

StartOrContinueTask(setup, sessionId) ==
    LET res == startOrContinueTask(tasks, loops, nextId, setup, sessionId) IN
    /\ res.nextId <= MaxTasks + 1
    /\ loops' = res.loops
    /\ nextId' = res.nextId
    /\ Step("startOrContinueTask", sessionId, FALSE)
    /\ UNCHANGED <<tasks, events, conts, now, monitor, sweeps,
                   backgroundTaskService, streams, automation>>

\* an abort that triggers the token and leaves the registry alone: not
\* what abortTask does
abortTaskTokenOnly(r, ls, sessionId) ==
    LET task == findTaskBySessionId(r.tasks, sessionId) IN
    IF task = NoTask
    THEN [reg |-> Throw(r), loops |-> ls]
    ELSE [reg |-> r, loops |-> [ls EXCEPT ![task.id].aborted = TRUE]]

\* abortTask(sessionId): without an alive task of that session it throws
\* before touching anything; otherwise the task's token is triggered and
\* the task failed
abortTask(r, ls, sessionId) ==
    LET task == findTaskBySessionId(r.tasks, sessionId) IN
    IF task = NoTask
    THEN [reg |-> Throw(r), loops |-> ls]
    ELSE [reg |-> failTask(r, task.id),
          loops |-> [ls EXCEPT ![task.id].aborted = TRUE]]

AbortTask(sessionId) ==
    LET res == abortTask(Reg(tasks), loops, sessionId) IN
    /\ tasks' = res.reg.tasks
    /\ events' = Emitted(res.reg)
    /\ loops' = res.loops
    /\ Step("abortTask", sessionId, res.reg.raised)
    /\ UNCHANGED <<nextId, conts, now, monitor, sweeps, backgroundTaskService,
                   streams, automation>>

\* one iteration of the for-await: updateTaskFromMessage, registration on
\* the first task it yields, handleTaskCompletion.  An aborted stream
\* delivers nothing more.
LoopMessage(t, shape) ==
    LET l == loops[t]
        message == Message(shape, l.n + 1, l.session)
        currentTask == updateTaskFromMessage(t, l, message)
        register == shouldRegister(currentTask, l.resolved)
        r1 == IF register THEN addTask(Reg(tasks), currentTask) ELSE Reg(tasks)
        l0 == [Delivered(l, shape, message) EXCEPT
                  !.currentTask = currentTask,
                  !.resolved = @ \/ register,
                  !.settled = IF register THEN "resolved" ELSE @]
        l1 == IF register THEN resolveFirstMessage(l0) ELSE l0
        completion == currentTask # NoTask /\ message.type = "result"
    IN /\ l.pc = "streaming"
       /\ l.n < MaxMsgs
       /\ ~l.aborted
       /\ UNCHANGED <<monitor, sweeps, backgroundTaskService, streams, last,
                      nextId, now, automation>>
       /\ IF completion /\ currentTask.completionCondition = "spec-workflow"
          THEN IF currentTask.sessionId = 0
               THEN /\ LoopCommit(t, handleCompletionNoSession(r1, currentTask),
                                  l1, loops)
                    /\ UNCHANGED conts
               ELSE /\ Len(conts) < MaxConts
                    /\ conts' = Append(conts,
                                  Cont("completion", currentTask, t, "", 0))
                    /\ LoopCommit(t, r1, [l1 EXCEPT !.pc = "handling"], loops)
          ELSE IF completion
          THEN /\ LoopCommit(t, handleDefaultTask(r1, l1, currentTask).reg,
                               handleDefaultTask(r1, l1, currentTask).loop, loops)
               /\ UNCHANGED conts
          ELSE /\ LoopCommit(t, r1, l1, loops)
               /\ UNCHANGED conts

\* the stream is exhausted: completeTaskExecution(currentTask)
LoopEnd(t) ==
    LET l == loops[t]
        r == IF l.currentTask # NoTask
             THEN completeTask(Reg(tasks), l.currentTask.id)
             ELSE Reg(tasks)
    IN /\ l.pc = "streaming"
       /\ LoopCommit(t, r, [l EXCEPT !.pc = "ended"], loops)
       /\ UNCHANGED <<monitor, sweeps, backgroundTaskService, streams, last,
                      nextId, conts, now, automation>>

\* the stream throws (the agent process fails, or was aborted)
LoopThrow(t) ==
    LET l == loops[t] IN
    /\ l.pc = "streaming"
    /\ LoopCommit(t, Throw(Reg(tasks)), l, loops)
    /\ UNCHANGED <<monitor, sweeps, backgroundTaskService, streams, last,
                   nextId, conts, now, automation>>

\* getTaskProgress settles inside handleCompletion
HandleCompletionResume(i, outcome) ==
    LET c == conts[i]
        res == handleCompletion(Reg(tasks), RemoveAt(conts, i), c.task, outcome)
    IN /\ c.kind = "completion"
       /\ conts' = res.conts
       /\ UNCHANGED <<monitor, sweeps, backgroundTaskService, streams, last,
                      nextId, now, automation>>
       /\ IF c.caller = 0
          THEN /\ tasks' = res.reg.tasks
               /\ events' = Emitted(res.reg)
               /\ UNCHANGED loops
          ELSE LoopCommit(c.caller, res.reg,
                          [loops[c.caller] EXCEPT !.pc = "streaming"], loops)

\* one client request: the first task; every later task is one the
\* controller starts itself
StartFirstTask(setup) ==
    /\ nextId = 1
    /\ StartOrContinueTask(setup, 0)

\* a follow-up message of the client for the session of an alive task
ContinueTask(setup, sessionId) ==
    /\ findExistingTask(tasks, sessionId) # NoTask
    /\ loops[findExistingTask(tasks, sessionId).id].followUps < MaxFollowUps
    /\ StartOrContinueTask(setup, sessionId)

Next ==
    \/ \E s \in Setups : StartFirstTask(s)
    \/ \E s \in Setups, sid \in TaskIds : ContinueTask(s, sid)
    \/ \E sid \in TaskIds : AbortTask(sid)
    \/ AbortAllAliveTasks
    \/ \E t \in TaskIds, shape \in MsgShapes : LoopMessage(t, shape)
    \/ \E t \in TaskIds : LoopEnd(t)
    \/ \E t \in TaskIds : LoopThrow(t)

Spec == Init /\ [][Next]_vars

---------------------------------------------------------------------------
(* The state-driven controller: ClaudeCodeStateDetector,                   *)
(* WorkflowCompletionDetector, TaskStateOrchestrator                       *)

\* the clock advances by this much at a time
TickMinutes == 3

\* a falsy timestamp: undefined or 0
NoTimestamp(lastActivity) == lastActivity = Undefined \/ lastActivity = 0

hasError(context) ==
    \/ context.lastMessage.type = "error"
    \/ context.lastMessage.error
    \/ /\ context.isLastMessage
       /\ context.lastMessage.type = "system"
       /\ context.lastMessage.contentError

hasTimedOut(context, clock) ==
    IF NoTimestamp(context.lastActivity)
    THEN FALSE
    ELSE clock - context.lastActivity > TimeoutMinutes

isActivelyProcessing(context) ==
    LET messageType == context.messageType IN
    IF context.isLastMessage
    THEN messageType = "tool_use" \/ messageType = "tool_result"
    ELSE \/ messageType = "tool_use" \/ messageType = "tool_result"
         \/ messageType = "user"
         \/ messageType = "assistant"

detectState(context, clock) ==
    IF hasError(context) THEN "error"
    ELSE IF hasTimedOut(context, clock) THEN "idle"
    ELSE IF isActivelyProcessing(context) THEN "running"
    ELSE "idle"

StateContext(message, isLastMessage, lastActivity) ==
    [lastMessage |-> message, isLastMessage |-> isLastMessage,
     messageType |-> message.type, lastActivity |-> lastActivity]

\* WorkflowCompletionDetector.detectWorkflowStatus, given what reading the
\* transcript gave
detectWorkflowStatus(task, outcome) ==
    IF task.completionCondition # "spec-workflow" THEN "unknown"
    ELSE IF outcome.throws THEN "unknown"
    ELSE IF ~outcome.report.found THEN "no_activity"
    ELSE IF isAllTasksCompleted(outcome.report) THEN "completed"
    ELSE "in_progress"

Decision(action, shouldExecute) ==
    [action |-> action, shouldExecute |-> shouldExecute]

decideIdleActionPauseIdle(workflowStatus, canContinue) ==
    CASE workflowStatus = "completed" -> Decision("complete", TRUE)
      [] workflowStatus = "in_progress" ->
            IF canContinue THEN Decision("restart", TRUE)
                           ELSE Decision("pause", TRUE)
      [] OTHER -> Decision("pause", TRUE)

decideIdleAction(workflowStatus, canContinue) ==
    CASE workflowStatus = "completed" -> Decision("complete", TRUE)
      [] workflowStatus = "in_progress" ->
            IF canContinue THEN Decision("restart", TRUE)
                           ELSE Decision("pause", TRUE)
      [] workflowStatus = "no_activity" ->
            IF canContinue THEN Decision("restart", TRUE)
                           ELSE Decision("pause", TRUE)
      [] OTHER -> Decision("pause", TRUE)

decideTaskAction(claudeState, workflowStatus, canContinue) ==
    IF claudeState = "error" THEN Decision("complete", TRUE)
    ELSE IF claudeState = "running" THEN Decision("continue", FALSE)
    ELSE decideIdleAction(workflowStatus, canContinue)

canTaskAutoContinue(task) == task.autoContinue /\ task.originalPrompt # ""

\* the state-driven controller stamps the task it builds from a message
updateTaskFromMessageState(id, l, message, clock) ==
    IF (message.type = "user" \/ message.type = "assistant") /\ message.uuid # 0
    THEN RunningTask(id, l.setup, message.session_id, message.uuid, clock)
    ELSE NoTask

\* the stream-end decision is taken unless the last message's was executed
shouldHandleStreamEndAlways(currentTask, finalExecuted) ==
    currentTask # NoTask

shouldHandleStreamEnd(currentTask, finalExecuted) ==
    currentTask # NoTask /\ ~finalExecuted

\* what executeTaskAction("restart") hands to startNewTask
RestartSetup(task) ==
    [TaskSetup(task) EXCEPT
        !.prompt = IF task.originalPrompt = ""
                   THEN "Continue previous task" ELSE task.originalPrompt]


\* Steps 3 and 4 of handleTaskStateDecision for the task of loop t, once
\* the workflow status is known: decide, execute, and go on (or, for a
\* restart, wait for the new task's first message).
Decide(t, r, l, claudeState, workflowStatus) ==
    LET task == l.currentTask
        decision == decideTaskAction(claudeState, workflowStatus,
                                     canTaskAutoContinue(task))
        back == IF l.atEnd THEN "ended" ELSE "streaming"
        counted == [l EXCEPT !.claudeState = "",
                             !.execs[l.n] = IF decision.shouldExecute
                                            THEN @ + 1 ELSE @]
        r1 == CASE ~decision.shouldExecute -> r
                [] decision.action = "pause" -> pauseTask(r, task.id)
                [] OTHER -> completeTask(r, task.id)
        paused == decision.shouldExecute /\ decision.action = "pause"
                     /\ ~r1.raised
        done == [(IF paused THEN setFirstMessagePromise(counted) ELSE counted)
                   EXCEPT
                    !.pc = back,
                    !.finalExecuted = IF l.atEnd THEN @
                                      ELSE decision.shouldExecute]
    IN IF decision.shouldExecute /\ decision.action = "restart" /\ ~r1.raised
       THEN /\ nextId <= MaxTasks
            /\ nextId' = nextId + 1
            /\ LoopCommit(t, r1,
                          [counted EXCEPT !.pc = "restarting", !.child = nextId],
                          startNewTask(loops, nextId, RestartSetup(task), 0))
       ELSE /\ UNCHANGED nextId
            /\ LoopCommit(t, r1, done, loops)

\* step 1 of handleTaskStateDecision: the state is detected, and the call
\* waits for detectWorkflowStatus, whatever the task's completion condition
HandleTaskStateDecision(t, r, l, message, isLastMessage) ==
    LET claudeState ==
            detectState(StateContext(message, isLastMessage,
                                     l.currentTask.lastActivity), now)
        l1 == [l EXCEPT !.atEnd = isLastMessage]
    IN /\ LoopCommit(t, r, [l1 EXCEPT !.pc = "detecting",
                                      !.claudeState = claudeState], loops)
       /\ UNCHANGED nextId

\* what detectWorkflowStatus can come back with: the transcript is read
\* for a spec-workflow task only
DetectOutcomes(l) ==
    IF l.currentTask # NoTask
       /\ l.currentTask.completionCondition = "spec-workflow"
    THEN ProgressOutcomes(l.reported)
    ELSE { [throws |-> FALSE, report |-> NoReport] }

\* one iteration of the for-await of the state-driven loop
LoopMessageState(t, shape) ==
    LET l == loops[t]
        message == Message(shape, l.n + 1, l.session)
        currentTask == updateTaskFromMessageState(t, l, message, now)
        register == shouldRegister(currentTask, l.resolved)
        r1 == IF register THEN addTask(Reg(tasks), currentTask) ELSE Reg(tasks)
        l0 == [Delivered(l, shape, message) EXCEPT
                  !.currentTask = currentTask,
                  !.resolved = @ \/ register,
                  !.settled = IF register THEN "resolved" ELSE @]
        l1 == IF register THEN resolveFirstMessage(l0) ELSE l0
    IN /\ l.pc = "streaming"
       /\ l.n < MaxMsgs
       /\ ~l.aborted
       /\ UNCHANGED <<monitor, sweeps, backgroundTaskService, streams, last,
                      conts, now, automation>>
       /\ IF currentTask = NoTask
          THEN /\ LoopCommit(t, r1, [l1 EXCEPT !.finalExecuted = FALSE], loops)
               /\ UNCHANGED nextId
          ELSE HandleTaskStateDecision(t, r1, l1, message, FALSE)

\* detectWorkflowStatus settles
DetectDone(t, outcome) ==
    LET l == loops[t] IN
    /\ l.pc = "detecting"
    /\ UNCHANGED <<monitor, sweeps, backgroundTaskService, streams, last,
                   conts, now, automation>>
    /\ Decide(t, Reg(tasks), l, l.claudeState,
              detectWorkflowStatus(l.currentTask, outcome))

\* the promise of the task a restart started settles
RestartResume(t) ==
    LET l == loops[t]
        back == IF l.atEnd THEN "ended" ELSE "streaming"
    IN /\ l.pc = "restarting"
       /\ loops[l.child].settled # "pending"
       /\ UNCHANGED <<monitor, sweeps, backgroundTaskService, streams, last,
                      nextId, conts, now, automation>>
       /\ IF loops[l.child].settled = "resolved"
          THEN LoopCommit(t, Reg(tasks),
                          [l EXCEPT !.pc = back,
                                    !.finalExecuted = IF l.atEnd THEN @ ELSE TRUE],
                          loops)
          ELSE LoopCommit(t, Throw(Reg(tasks)), l, loops)

\* the stream is exhausted
LoopEndState(t) ==
    LET l == loops[t] IN
    /\ l.pc = "streaming"
    /\ UNCHANGED <<monitor, sweeps, backgroundTaskService, streams, last,
                   conts, now, automation>>
    /\ IF shouldHandleStreamEnd(l.currentTask, l.finalExecuted)
       THEN HandleTaskStateDecision(t, Reg(tasks), l, l.lastMessage, TRUE)
       ELSE /\ LoopCommit(t, Reg(tasks), [l EXCEPT !.pc = "ended"], loops)
            /\ UNCHANGED nextId

Tick ==
    /\ now + TickMinutes <= MaxTime
    /\ now' = now + TickMinutes
    /\ UNCHANGED <<tasks, events, last, nextId, loops, conts, monitor,
                   sweeps, backgroundTaskService, streams, automation>>

NextState ==
    \/ \E s \in Setups : StartFirstTask(s)
    \/ \E sid \in TaskIds : AbortTask(sid)
    \/ AbortAllAliveTasks
    \/ \E t \in TaskIds, shape \in MsgShapes : LoopMessageState(t, shape)
    \/ \E t \in TaskIds : \E outcome \in DetectOutcomes(loops[t]) :
          DetectDone(t, outcome)
    \/ \E t \in TaskIds : RestartResume(t)
    \/ \E t \in TaskIds : LoopEndState(t)
    \/ \E t \in TaskIds : LoopThrow(t)
    \/ Tick

SpecState == Init /\ [][NextState]_vars

\* the messages the streams deliver while the client sends follow-up
\* messages: the ones without an error
FollowUpShapes == { shape \in MsgShapes : ~shape.error /\ shape.hasUuid }

\* the state-driven controller with the client's follow-up messages
NextFollowUp ==
    \/ \E s \in Setups : StartFirstTask(s)
    \/ \E s \in Setups, sid \in TaskIds : ContinueTask(s, sid)
    \/ \E sid \in TaskIds : AbortTask(sid)
    \/ AbortAllAliveTasks
    \/ \E t \in TaskIds, shape \in FollowUpShapes : LoopMessageState(t, shape)
    \/ \E t \in TaskIds : \E outcome \in DetectOutcomes(loops[t]) :
          DetectDone(t, outcome)
    \/ \E t \in TaskIds : RestartResume(t)
    \/ \E t \in TaskIds : LoopEndState(t)
    \/ \E t \in TaskIds : LoopThrow(t)
    \/ Tick

SpecFollowUp == Init /\ [][NextFollowUp]_vars

---------------------------------------------------------------------------
(* SpecHandler: the handlers at work on the controller's tasks *)

\* An environment step, not a step of the controller: handleCompletion is
\* public, but its only caller, handleSpecWorkflowTask, is never reached
\* (a result message yields no currentTask).  Here a caller that holds the
\* callbacks handleSpecWorkflowTask wires calls it for an alive
\* spec-workflow task of the registry; the step is the call up to its
\* await.  It brings the handlers' code under the properties that say what
\* the handlers never do.
HandleCompletionCall(t) ==
    LET currentTask == findTaskById(tasks, t) IN
    /\ currentTask # NoTask
    /\ isAlive(currentTask)
    /\ currentTask.completionCondition = "spec-workflow"
    /\ Len(conts) < MaxConts
    /\ \A i \in 1..Len(conts) : conts[i].task.id # t
    /\ IF currentTask.sessionId = 0
       THEN LET r == handleCompletionNoSession(Reg(tasks), currentTask) IN
            /\ tasks' = r.tasks
            /\ events' = Emitted(r)
            /\ UNCHANGED conts
       ELSE /\ conts' = Append(conts, Cont("completion", currentTask, 0, "", 0))
            /\ UNCHANGED <<tasks, events>>
    /\ UNCHANGED <<monitor, sweeps, backgroundTaskService, streams, last,
                   nextId, loops, now, automation>>

\* a callback that starts the new task and leaves the old one as it is:
\* not what the timer's callback does
continuationCallbackKeepsTask(r, currentTask) == r

\* the timer handleAutoContinue armed fires: complete the old task, start
\* the new one; a failure of either is reported as a navigation event
continuationCallback(r, currentTask) ==
    LET r1 == completeTask(r, currentTask.id) IN
    IF r1.raised THEN handleContinuationFailure(Caught(r1), currentTask) ELSE r1

ContinuationFire(i) ==
    LET c == conts[i]
        started == ~completeTask(Reg(tasks), c.task.id).raised
        r == continuationCallback(Reg(tasks), c.task)
    IN /\ c.kind = "continuation"
       /\ tasks' = r.tasks
       /\ events' = Emitted(r)
       /\ UNCHANGED <<monitor, sweeps, backgroundTaskService, streams, last,
                      now, automation>>
       /\ IF started
          THEN /\ nextId <= MaxTasks
               /\ nextId' = nextId + 1
               /\ loops' = startNewTask(loops, nextId, TaskSetup(c.task), 0)
               /\ conts' = [conts EXCEPT ![i] =
                               Cont("starting", c.task, 0, c.reason, nextId)]
          ELSE /\ conts' = RemoveAt(conts, i)
               /\ UNCHANGED <<nextId, loops>>

\* startTask settles inside the timer's callback: navigate to the new
\* session and arm the fallback, or report the failure
continuationStarted(r, currentTask, settled, newTask) ==
    IF settled = "resolved"
    THEN navigateToSession(r, currentTask.projectId, newTask)
    ELSE handleContinuationFailure(r, currentTask)

ContinuationResume(i) ==
    LET c == conts[i]
        settled == loops[c.child].settled
        r == continuationStarted(Reg(tasks), c.task, settled,
                                 findTaskById(tasks, c.child))
    IN /\ c.kind = "starting"
       /\ settled # "pending"
       /\ tasks' = r.tasks
       /\ events' = Emitted(r)
       /\ conts' = IF settled = "resolved"
                   THEN [conts EXCEPT ![i] =
                            Cont("fallback", c.task, 0, c.reason, c.child)]
                   ELSE RemoveAt(conts, i)
       /\ UNCHANGED <<monitor, sweeps, backgroundTaskService, streams, last,
                      nextId, loops, now, automation>>

\* the timer setFallbackNavigation armed fires: the navigation event is
\* emitted again, whatever became of the new task
FallbackFire(i) ==
    LET c == conts[i]
        r == navigateToSession(Reg(tasks), c.task.projectId,
                               findTaskById(tasks, c.child))
    IN /\ c.kind = "fallback"
       /\ tasks' = r.tasks
       /\ events' = Emitted(r)
       /\ conts' = RemoveAt(conts, i)
       /\ UNCHANGED <<monitor, sweeps, backgroundTaskService, streams, last,
                      nextId, loops, now, automation>>

\* the messages the streams deliver while the handlers are called: the
\* ones that register the task, with and without a progress summary
HandlerShapes ==
    { shape \in MsgShapes : ~shape.error /\ shape.hasUuid
                               /\ shape.type \in {"user", "assistant"} }

NextHandler ==
    \/ \E s \in Setups : StartFirstTask(s)
    \/ \E s \in Setups, sid \in TaskIds : ContinueTask(s, sid)
    \/ \E sid \in TaskIds : AbortTask(sid)
    \/ AbortAllAliveTasks
    \/ \E t \in TaskIds, shape \in HandlerShapes : LoopMessage(t, shape)
    \/ \E t \in TaskIds : LoopEnd(t)
    \/ \E t \in TaskIds : LoopThrow(t)
    \/ \E t \in TaskIds : HandleCompletionCall(t)
    \/ \E i \in 1..Len(conts) :
          \E outcome \in ProgressOutcomes(loops[conts[i].task.id].reported) :
             HandleCompletionResume(i, outcome)
    \/ \E i \in 1..Len(conts) : ContinuationFire(i)
    \/ \E i \in 1..Len(conts) : ContinuationResume(i)
    \/ \E i \in 1..Len(conts) : FallbackFire(i)

SpecHandler == Init /\ [][NextHandler]_vars

---------------------------------------------------------------------------
(* Properties of the registry (SpecRegistry) *)

\* a registry operation that threw and left the registry and the bus alone
Rejected(r) == r.raised /\ r.tasks = tasks /\ r.events = <<>>

\* C7: pauseTask and completeTask throw when the target is missing or not
\* alive (not running and not paused), updateTask throws when the id is
\* missing; in each case no task is modified and no event is emitted.
C7_RejectedCallsChangeNothing ==
    \A id \in TaskIds :
        LET present == \E i \in 1..Len(tasks) : tasks[i].id = id
            alive == \E i \in 1..Len(tasks) :
                        /\ tasks[i].id = id
                        /\ tasks[i].status \in {"running", "paused"}
        IN /\ ~alive => /\ Rejected(pauseTask(Reg(tasks), id))
                        /\ Rejected(completeTask(Reg(tasks), id))
           /\ ~present =>
                 \A status \in {"running", "paused", "completed", "failed"} :
                    Rejected(updateTask(Reg(tasks),
                        [RunningTask(id, RegistrySetup, id, 1, now)
                            EXCEPT !.status = status]))
           /\ (last.arg = id /\ last.raised
                 /\ last.op \in {"pauseTask", "completeTask"}) => ~alive
           /\ (last.arg = id /\ last.raised /\ last.op = "updateTask")
                 => ~present

\* C7's case: pauseTask was called on a completed task, and threw
C7_PauseOfCompletedTaskThrew ==
    /\ last.op = "pauseTask"
    /\ last.raised
    /\ \E i \in 1..Len(tasks) :
          tasks[i].id = last.arg /\ tasks[i].status = "completed"

\* exactly one task_changed event carrying every alive task of ts, in order
OneSnapshot(batch, ts) ==
    LET Alive(task) == task.status \in {"running", "paused"} IN
    batch = << [type |-> "task_changed", data |-> SelectSeq(ts, Alive)] >>

\* C8: every successful add, update, pause, complete and fail emits exactly
\* one task_changed event whose payload is the full list of alive tasks
\* after the mutation.
C8_OneSnapshotPerMutation ==
    /\ \A id \in TaskIds :
          LET Emits(r) == ~r.raised => OneSnapshot(r.events, r.tasks)
              existing == findTaskById(tasks, id)
          IN /\ Emits(pauseTask(Reg(tasks), id))
             /\ Emits(completeTask(Reg(tasks), id))
             /\ Emits(failTask(Reg(tasks), id))
             /\ existing = NoTask =>
                   Emits(addTask(Reg(tasks),
                                 RunningTask(id, RegistrySetup, id, 1, now)))
             /\ existing # NoTask =>
                   \A status \in {"running", "paused", "completed", "failed"} :
                      Emits(updateTask(Reg(tasks),
                                       [existing EXCEPT !.status = status]))
    /\ (last.op # "none" /\ ~last.raised) => OneSnapshot(events, tasks)

\* C8's case: completeTask succeeded with another task alive; the event
\* carries that other task and not the completed one
C8_CompletionEmittedSnapshot ==
    /\ last.op = "completeTask"
    /\ ~last.raised
    /\ Len(tasks) = 2
    /\ Len(events) = 1
    /\ events[1].type = "task_changed"
    /\ Len(events[1].data) = 1
    /\ events[1].data[1].id # last.arg

---------------------------------------------------------------------------
(* Properties of the controller (Spec) *)

\* C9: abortTask(sessionId) throws when no alive task has that session id,
\* the session of a completed or failed task included; nothing is modified,
\* no token is triggered and no event is emitted.
C9_AbortWithoutAliveTaskThrows ==
    /\ \A sessionId \in TaskIds :
          LET aliveWith == \E i \in 1..Len(tasks) :
                              /\ tasks[i].sessionId = sessionId
                              /\ tasks[i].status \in {"running", "paused"}
              res == abortTask(Reg(tasks), loops, sessionId)
          IN ~aliveWith => /\ res.reg.raised
                           /\ res.reg.tasks = tasks
                           /\ res.reg.events = <<>>
                           /\ res.loops = loops
    /\ (last.op = "abortTask" /\ ~last.raised) =>
          \E i \in 1..Len(tasks) :
             /\ tasks[i].sessionId = last.arg
             /\ loops[tasks[i].id].aborted

\* C9's case: abortTask was called with the session of a task that is in
\* the registry but terminal, and threw
C9_AbortOfTerminalSessionThrew ==
    /\ last.op = "abortTask"
    /\ last.raised
    /\ \E i \in 1..Len(tasks) :
          /\ tasks[i].sessionId = last.arg
          /\ tasks[i].status \in {"completed", "failed"}

\* the registry entries of task t
EntriesOf(t) == {i \in 1..Len(tasks) : tasks[i].id = t}

\* C10: the promise of a new task resolves exactly when the first user or
\* assistant message carrying an identifier arrives; the task is then in
\* the registry, once, with that message's session id and identifier;
\* nothing is registered before, and later messages add no entry.  The
\* entry is added as a running task.
C10_RegisteredOnFirstIdentifiedMessage ==
    /\ [](\A t \in TaskIds :
            /\ Cardinality(EntriesOf(t)) = IF loops[t].idSeen THEN 1 ELSE 0
            /\ (loops[t].settled = "resolved") <=> loops[t].idSeen
            /\ \A i \in EntriesOf(t) :
                  /\ tasks[i].sessionId = loops[t].session
                  /\ tasks[i].userMessageId \in 1..loops[t].n)
    /\ [][\A t \in TaskIds :
            (~loops[t].idSeen /\ loops'[t].idSeen) =>
               /\ Len(tasks') = Len(tasks) + 1
               /\ tasks'[Len(tasks')].id = t
               /\ tasks'[Len(tasks')].status = "running"
               /\ tasks'[Len(tasks')].userMessageId = loops'[t].n
               /\ loops[t].settled = "pending"
               /\ loops'[t].settled = "resolved"]_vars

\* C10's case: the stream delivered a message without identifier, then one
\* with an identifier, which registered the task
C10_SecondMessageRegistered ==
    \E t \in TaskIds :
        /\ loops[t].n = 2
        /\ \E i \in EntriesOf(t) : tasks[i].userMessageId = 2


\* the stream of task t ended normally after a result message, the task
\* is registered and nobody aborted it
ResultProcessed(t) ==
    /\ loops[t].pc = "ended"
    /\ loops[t].lastMessage.type = "result"
    /\ ~loops[t].aborted
    /\ EntriesOf(t) # {}
    /\ loops[t].setup.completionCondition = "spec-workflow"

StatusOf(t) == tasks[CHOOSE i \in EntriesOf(t) : TRUE].status

\* C2: when the result of a spec-workflow task is processed and the latest
\* reported progress has total = completed > 0, the task ends completed
\* and no new task is created.
C2_CompleteWorkflowCompletesTask ==
    \A t \in TaskIds :
        (/\ ResultProcessed(t)
         /\ loops[t].reported.found
         /\ loops[t].reported.total > 0
         /\ loops[t].reported.total = loops[t].reported.completed)
        => /\ StatusOf(t) = "completed"
           /\ nextId = t + 1

\* C3: when the result of a spec-workflow task is processed, the workflow
\* is in progress and autoContinue is false, the task becomes paused, stays
\* alive and findable by its session id, and no new task is created.
C3_IncompleteWorkflowPausesTask ==
    \A t \in TaskIds :
        (/\ ResultProcessed(t)
         /\ loops[t].reported.found
         /\ loops[t].reported.total > loops[t].reported.completed
         /\ ~loops[t].setup.autoContinue)
        => /\ StatusOf(t) = "paused"
           /\ findTaskBySessionId(tasks, loops[t].session) # NoTask
           /\ nextId = t + 1

---------------------------------------------------------------------------
(* Properties of the state-driven controller (SpecState) *)

\* C1: when the result of a spec-workflow task is processed, the workflow
\* is in progress, autoContinue is true and the task has a prompt, exactly
\* one new task has been started, with the same project, directory,
\* completion condition, autoContinue and prompt, in a fresh session, and
\* the old task is completed.
C1_IncompleteWorkflowRestartsTask ==
    \A t \in TaskIds :
        (/\ ResultProcessed(t)
         /\ loops[t].reported.found
         /\ loops[t].reported.total > loops[t].reported.completed
         /\ loops[t].setup.autoContinue
         /\ loops[t].setup.prompt # "")
        => /\ StatusOf(t) = "completed"
           /\ loops[t].child # 0
           /\ loops[loops[t].child].setup = loops[t].setup
           /\ loops[loops[t].child].baseSessionId = 0

\* C4: the decision for a triggering message, the end of the stream
\* included, is executed at most once.
C4_DecisionExecutedAtMostOnce ==
    \A t \in TaskIds : \A k \in 1..MaxMsgs : loops[t].execs[k] <= 1

\* C4's case: the decision for the last message was executed inside the
\* loop, and the stream has ended since
C4_EndAfterExecutedDecision ==
    \E t \in TaskIds :
        /\ loops[t].pc = "ended"
        /\ loops[t].n > 0
        /\ loops[t].currentTask # NoTask
        /\ loops[t].finalExecuted
        /\ loops[t].execs[loops[t].n] = 1

\* C6: a task that is completed or failed never changes status again.
C6_TerminalStatusIsFinal ==
    [][\A i \in 1..Len(tasks) :
          tasks[i].status \in {"completed", "failed"}
             => tasks'[i].status = tasks[i].status]_vars

---------------------------------------------------------------------------
(* Properties of the handlers (SpecHandler) *)

\* C5: abortTask on an alive task triggers the task's token and sets the
\* task failed before it returns; the task is failed from then on, also
\* after a continuation scheduled for it has fired.
\* Stated on abortTask's result and on every step after it: a task whose
\* token is triggered and which is failed, as abortTask leaves it, is
\* failed after the step.
C5_AbortedTaskStaysFailed ==
    /\ [](\A sessionId \in TaskIds :
            LET res == abortTask(Reg(tasks), loops, sessionId) IN
            \A i \in 1..Len(tasks) :
               (/\ tasks[i].sessionId = sessionId
                /\ tasks[i].status \in {"running", "paused"})
               => /\ ~res.reg.raised
                  /\ res.loops[tasks[i].id].aborted
                  /\ res.reg.tasks[i].status = "failed")
    /\ [][\A i \in 1..Len(tasks) :
             (loops[tasks[i].id].aborted /\ tasks[i].status = "failed")
             => /\ i <= Len(tasks')
                /\ tasks'[i].id = tasks[i].id
                /\ tasks'[i].status = "failed"
                /\ loops'[tasks[i].id].aborted]_vars

\* C5's case: a task was aborted while its continuation timer was armed,
\* and the timer has fired since (its callback reported the failure)
C5_ContinuationFiredAfterAbort ==
    \E t \in TaskIds :
        /\ loops[t].aborted
        /\ Len(events) = 1
        /\ events[1].type = "navigate_to_project"
        /\ events[1].data.taskId = t
        /\ events[1].data.reason = "auto_continue_failed"
        /\ \A i \in 1..Len(conts) : conts[i].task.id # t

---------------------------------------------------------------------------
(* Properties of continuing a task (SpecFollowUp) *)

\* C11: startOrContinueTask with the session id of a running or paused
\* task hands the message to that task's generator and returns that task;
\* no task is created, no registry entry is added, no other loop changes.
C11_ContinueReusesExistingTask ==
    /\ [](\A setup \in Setups, sessionId \in TaskIds :
            \A i \in 1..Len(tasks) :
               (/\ tasks[i].sessionId = sessionId
                /\ tasks[i].status \in {"running", "paused"}
                /\ \A j \in 1..(i - 1) :
                      ~(/\ tasks[j].sessionId = sessionId
                        /\ tasks[j].status \in {"running", "paused"}))
               => LET res == startOrContinueTask(tasks, loops, nextId, setup,
                                                 sessionId)
                      id == tasks[i].id
                  IN /\ res.task = id
                     /\ res.nextId = nextId
                     /\ res.loops[id].followUps = loops[id].followUps + 1
                     /\ res.loops[id].pc = loops[id].pc
                     /\ res.loops[id].n = loops[id].n
                     /\ \A t \in TaskIds \ {id} : res.loops[t] = loops[t])
    /\ [][\A t \in TaskIds :
            loops'[t].followUps > loops[t].followUps =>
               /\ tasks' = tasks
               /\ nextId' = nextId
               /\ findTaskById(tasks, t).status \in {"running", "paused"}
               /\ last'.op = "startOrContinueTask"
               /\ last'.arg = findTaskById(tasks, t).sessionId
               /\ \A u \in TaskIds \ {t} : loops'[u] = loops[u]]_vars

\* C11's case: a follow-up message was handed to a paused task: the caller
\* waits on the promise the pause renewed
C11_PausedTaskContinued ==
    \E i \in 1..Len(tasks) :
       /\ tasks[i].status = "paused"
       /\ last.op = "startOrContinueTask"
       /\ last.arg = tasks[i].sessionId
       /\ loops[tasks[i].id].followUps > 0
       /\ loops[tasks[i].id].waiting > 0
       /\ nextId = tasks[i].id + 1

---------------------------------------------------------------------------
(* Properties of the message loops *)

\* C12: when the stream of a task that is registered as running delivers
\* a result message, the decision step runs for that task: the handler is
\* entered, or the task is paused or completed by that step.
C12_ResultMessageRunsDecision ==
    [][\A t \in TaskIds :
          (/\ loops[t].pc = "streaming"
           /\ loops'[t].n = loops[t].n + 1
           /\ loops'[t].lastMessage.type = "result"
           /\ \E i \in 1..Len(tasks) :
                 tasks[i].id = t /\ tasks[i].status = "running")
          => \/ loops'[t].pc \in {"handling", "detecting", "restarting"}
             \/ \E i \in 1..Len(tasks') :
                   /\ tasks'[i].id = t
                   /\ tasks'[i].status \in {"paused", "completed"}]_vars

---------------------------------------------------------------------------
(* actions/DecisionEngine: the decision as a lookup table *)

ClaudeStates == {"running", "idle", "error"}

WorkflowStatuses == {"completed", "in_progress", "no_activity", "unknown"}

\* IdleDecisions[workflowStatus], with the fallback for a status the table
\* does not hold
DecisionEngine_decideIdleAction(workflowStatus, canContinue) ==
    LET IdleDecisions ==
          [ws \in {"completed", "in_progress", "no_activity"} |->
              CASE ws = "completed" -> Decision("complete", TRUE)
                [] ws = "in_progress" ->
                      IF canContinue THEN Decision("restart", TRUE)
                                     ELSE Decision("pause", TRUE)
                [] ws = "no_activity" ->
                      IF canContinue THEN Decision("restart", TRUE)
                                     ELSE Decision("pause", TRUE)]
    IN IF workflowStatus \in DOMAIN IdleDecisions
       THEN IdleDecisions[workflowStatus]
       ELSE Decision("pause", TRUE)

\* DecisionTable[claudeState], with the fallback for an unknown state
DecisionEngine_decideAction(claudeState, workflowStatus, canContinue) ==
    LET DecisionTable ==
          [cs \in {"error", "running", "idle"} |->
              CASE cs = "error" -> Decision("complete", TRUE)
                [] cs = "running" -> Decision("continue", FALSE)
                [] cs = "idle" ->
                      DecisionEngine_decideIdleAction(workflowStatus,
                                                      canContinue)]
    IN IF claudeState \in DOMAIN DecisionTable
       THEN DecisionTable[claudeState]
       ELSE Decision("pause", TRUE)

DecisionEngine_canTaskAutoContinue(task) ==
    task.autoContinue /\ task.originalPrompt # ""

\* C13: both decision functions are defined for every input and equal the
\* decision table: error gives complete; running gives continue; idle gives
\* complete for a completed workflow, restart (with canAutoContinue) or
\* pause (without) for in_progress and no_activity, pause for unknown;
\* shouldExecute is false exactly for continue; canAutoContinue is the
\* autoContinue flag together with a non-empty original prompt.
C13_DecisionEqualsTable ==
    /\ \A cs \in {"running", "idle", "error"} :
       \A ws \in {"completed", "in_progress", "no_activity", "unknown"} :
       \A can \in {TRUE, FALSE} :
          LET expected ==
                IF cs = "error" THEN "complete"
                ELSE IF cs = "running" THEN "continue"
                ELSE IF ws = "completed" THEN "complete"
                ELSE IF ws = "unknown" THEN "pause"
                ELSE IF can THEN "restart"
                ELSE "pause"
          IN \A d \in { decideTaskAction(cs, ws, can),
                        DecisionEngine_decideAction(cs, ws, can) } :
                /\ d.action = expected
                /\ d.shouldExecute = (expected # "continue")
    /\ \A setup \in Setups : \A i \in 1..Len(tasks) :
          LET task == [tasks[i] EXCEPT !.autoContinue = setup.autoContinue,
                                       !.originalPrompt = setup.prompt]
              expected == setup.autoContinue /\ setup.prompt # ""
          IN /\ canTaskAutoContinue(task) = expected
             /\ DecisionEngine_canTaskAutoContinue(task) = expected
    /\ \A t \in TaskIds :
          loops[t].child # 0 =>
             /\ loops[t].setup.autoContinue
             /\ loops[t].setup.prompt # ""

\* C13's case: the stream of a task that can continue ended idle with an
\* incomplete workflow, and the restart the table gives was executed
C13_RestartDecided ==
    \E t \in TaskIds :
        /\ loops[t].child # 0
        /\ loops[t].atEnd
        /\ loops[t].reported.found
        /\ loops[t].reported.total > loops[t].reported.completed
        /\ loops[t].execs[loops[t].n] = 1

---------------------------------------------------------------------------
(* TaskMonitoringService: progress extraction from a session's transcript  *)

\* entries a transcript holds at most
MaxEntries == 4

\* A tool name, split at "__".  startsWith("mcp__spec-workflow__") holds
\* for names whose first two parts are mcp and spec-workflow and that have
\* a third part.
ManageTasksTool == <<"mcp", "spec-workflow", "manage-tasks">>
SpecStatusTool == <<"mcp", "spec-workflow", "spec-status">>
OtherTool == <<"Bash">>

startsWithAnything(name) == Len(name) >= 1

startsWithSpecWorkflow(name) ==
    Len(name) >= 3 /\ name[1] = "mcp" /\ name[2] = "spec-workflow"

\* The content of a tool result: its form (string, array with a text item,
\* or something else), whether the text is JSON, and which keys the parsed
\* object holds; total and completed are Undefined when the key is absent,
\* hasCounts tells whether the summary also holds inProgress and pending.
Payload(form, syntax, success, message, data, summary, total, completed) ==
    [form |-> form, syntax |-> syntax, hasSuccess |-> success,
     hasMessage |-> message, hasData |-> data,
     hasSummary |-> summary, total |-> total, completed |-> completed,
     hasCounts |-> FALSE]

\* {success:true, message:"x", data:{summary:{total, completed}}}
SummaryPayload(total, completed) ==
    Payload("string", TRUE, TRUE, TRUE, TRUE, TRUE, total, completed)

\* the same with inProgress and pending in the summary
CountsPayload(total, completed) ==
    [SummaryPayload(total, completed) EXCEPT !.hasCounts = TRUE]

\* {success:true, message:"x", data:{}}
NoSummaryPayload ==
    Payload("string", TRUE, TRUE, TRUE, TRUE, FALSE, Undefined, Undefined)

\* {data:{summary:{total:3}}}
TotalOnlyPayload ==
    Payload("string", TRUE, FALSE, FALSE, TRUE, TRUE, 3, Undefined)

\* {success:true, message:"x", data:{summary:{total:3}}}, as array content
TotalOnlyArrayPayload ==
    Payload("array", TRUE, TRUE, TRUE, TRUE, TRUE, 3, Undefined)

\* text that is not JSON
NotJsonPayload ==
    Payload("string", FALSE, FALSE, FALSE, FALSE, FALSE, Undefined, Undefined)

\* content that is neither a string nor an array
ObjectPayload ==
    Payload("other", TRUE, TRUE, TRUE, TRUE, TRUE, 2, 2)

\* content items of a conversation entry
ToolUse(name, id) ==
    [type |-> "tool_use", name |-> name, id |-> id, content |-> NotJsonPayload]

ToolResultItem(id, payload) ==
    [type |-> "tool_result", name |-> <<>>, id |-> id, content |-> payload]

\* a conversation entry: assistant, user or x-error, with its timestamp
Conversation(type, timestamp, content) ==
    [type |-> type, timestamp |-> timestamp, content |-> content]

\* what the session file can gain: a tool call of the assistant (two
\* spec-workflow calls and a call of another tool), a tool result of the
\* user side answering one of them, or an unreadable line
EntryInputs ==
    { [type |-> "assistant", content |-> <<ToolUse(ManageTasksTool, 1)>>],
      [type |-> "assistant", content |-> <<ToolUse(SpecStatusTool, 2)>>],
      [type |-> "assistant", content |-> <<ToolUse(OtherTool, 3)>>],
      [type |-> "x-error", content |-> <<>>] }
    \cup { [type |-> "user", content |-> <<ToolResultItem(1, p)>>] :
             p \in { SummaryPayload(2, 1), SummaryPayload(2, 2),
                     SummaryPayload(2, 3),
                     NoSummaryPayload, TotalOnlyPayload,
                     TotalOnlyArrayPayload, NotJsonPayload, ObjectPayload } }
    \cup { [type |-> "user", content |-> <<ToolResultItem(2, p)>>] :
             p \in { SummaryPayload(2, 2) } }
    \cup { [type |-> "user", content |-> <<ToolResultItem(3, p)>>] :
             p \in { SummaryPayload(2, 2), TotalOnlyPayload } }

\* a zod issue: the path of the offending key and the issue code
Issue(path) == [path |-> path, code |-> "invalid_type"]

\* SpecWorkflowDataSchema.parse(parsedData): the issues, in key order
SpecWorkflowDataSchema(p) ==
    (IF p.hasSuccess THEN <<>> ELSE <<Issue(<<"success">>)>>)
    \o (IF p.hasMessage THEN <<>> ELSE <<Issue(<<"message">>)>>)
    \o (IF ~p.hasData THEN <<Issue(<<"data">>)>>
        ELSE IF ~p.hasSummary THEN <<Issue(<<"data", "summary">>)>>
        ELSE (IF p.total # Undefined THEN <<>>
              ELSE <<Issue(<<"data", "summary", "total">>)>>)
             \o (IF p.completed # Undefined THEN <<>>
                 ELSE <<Issue(<<"data", "summary", "completed">>)>>))

\* SpecWorkflowBaseDataSchema.safeParse(parsedData): data is optional and
\* may hold anything
SpecWorkflowBaseDataSchema(p) ==
    (IF p.hasSuccess THEN <<>> ELSE <<Issue(<<"success">>)>>)
    \o (IF p.hasMessage THEN <<>> ELSE <<Issue(<<"message">>)>>)


\* Array.prototype.includes on an issue's path
PathIncludes(path, key) == \E i \in 1..Len(path) : path[i] = key

NoError == [type |-> "none", message |-> "", details |-> <<>>]

\* new Error(`Failed to parse tool result JSON: ...`)
JsonError ==
    [type |-> "Error", message |-> "Failed to parse tool result JSON",
     details |-> <<>>]

\* createStructureError(zodError): details lists the properties named
createStructureError(issues) ==
    LET Some(key) == \E k \in 1..Len(issues) :
                        /\ PathIncludes(issues[k].path, key)
                        /\ issues[k].code = "invalid_type"
        summaryMissing == Some("summary")
        totalMissing == Some("total")
        completedMissing == Some("completed")
    IN IF summaryMissing
       THEN [type |-> "structure",
             message |-> "Spec-workflow data structure missing 'summary'",
             details |-> <<"data.summary">>]
       ELSE IF totalMissing \/ completedMissing
       THEN [type |-> "structure",
             message |-> "Spec-workflow summary structure changed",
             details |-> (IF totalMissing THEN <<"total">> ELSE <<>>)
                         \o (IF completedMissing THEN <<"completed">>
                             ELSE <<>>)]
       ELSE [type |-> "structure",
             message |-> "Spec-workflow data structure validation failed",
             details |-> <<>>]

\* a SpecWorkflowResult, or null
NoResult ==
    [found |-> FALSE, timestamp |-> 0, total |-> 0, completed |-> 0,
     hasCounts |-> FALSE]

SpecWorkflowResult(timestamp, p) ==
    [found |-> TRUE, timestamp |-> timestamp, total |-> p.total,
     completed |-> p.completed, hasCounts |-> p.hasCounts]

\* what a call of parseToolResult gives: the result it returns, the error
\* it throws, the error it reports itself with console.warn
Parsed(result, thrown, warned) ==
    [result |-> result, thrown |-> thrown, warned |-> warned]

\* parseToolResult of TaskMonitoringService.ts: a payload that is not JSON
\* or fails the schema makes it throw
parseToolResult(content, timestamp) ==
    IF content.form = "other" THEN Parsed(NoResult, NoError, NoError)
    ELSE IF ~content.syntax THEN Parsed(NoResult, JsonError, NoError)
    ELSE IF SpecWorkflowDataSchema(content) # <<>>
    THEN Parsed(NoResult,
                createStructureError(SpecWorkflowDataSchema(content)),
                NoError)
    ELSE Parsed(SpecWorkflowResult(timestamp, content), NoError, NoError)

\* parseToolResult of the revised service: every payload that is not a
\* progress summary is skipped; only text that is not JSON is reported
parseToolResultGraceful(content, timestamp) ==
    IF content.form = "other" THEN Parsed(NoResult, NoError, NoError)
    ELSE IF ~content.syntax THEN Parsed(NoResult, NoError, JsonError)
    ELSE IF SpecWorkflowBaseDataSchema(content) # <<>>
    THEN Parsed(NoResult, NoError, NoError)
    ELSE IF SpecWorkflowDataSchema(content) # <<>>
    THEN Parsed(NoResult, NoError, NoError)
    ELSE Parsed(SpecWorkflowResult(timestamp, content), NoError, NoError)

\* this.parseToolResult of the service at work
parseBy(service, content, timestamp) ==
    IF service = "graceful" THEN parseToolResultGraceful(content, timestamp)
    ELSE parseToolResult(content, timestamp)

\* Map.prototype.set
MapSet(map, key, value) ==
    [k \in (DOMAIN map) \cup {key} |-> IF k = key THEN value ELSE map[k]]

\* the loop's variables: specWorkflowToolUses, results, and what the catch
\* block and the parser reported with console.warn
Scan(toolUses, results, warnings) ==
    [toolUses |-> toolUses, results |-> results, warnings |-> warnings]

\* one content item of one conversation entry
scanItem(service, conversation, item, acc) ==
    IF /\ conversation.type = "assistant"
       /\ item.type = "tool_use"
       /\ startsWithSpecWorkflow(item.name)
       /\ item.id # 0
    THEN [acc EXCEPT !.toolUses = MapSet(@, item.id, conversation.timestamp)]
    ELSE IF /\ conversation.type = "user"
            /\ item.type = "tool_result"
            /\ item.id # 0
            /\ item.id \in DOMAIN acc.toolUses
    THEN LET parsed == parseBy(service, item.content, acc.toolUses[item.id])
             warned == IF parsed.warned # NoError
                       THEN Append(acc.warnings, parsed.warned)
                       ELSE acc.warnings
         IN IF parsed.thrown # NoError
            THEN [acc EXCEPT !.warnings = Append(warned, parsed.thrown)]
            ELSE IF parsed.result.found
            THEN [acc EXCEPT !.results = Append(@, parsed.result),
                             !.warnings = warned]
            ELSE [acc EXCEPT !.warnings = warned]
    ELSE acc


\* the items of one entry, in order; an x-error entry is skipped
RECURSIVE scanItems(_, _, _, _)
scanItems(service, conversation, i, acc) ==
    IF conversation.type = "x-error" \/ i > Len(conversation.content)
    THEN acc
    ELSE scanItems(service, conversation, i + 1,
                   scanItem(service, conversation, conversation.content[i],
                            acc))

RECURSIVE scanConversations(_, _, _, _)
scanConversations(service, conversations, k, acc) ==
    IF k > Len(conversations)
    THEN acc
    ELSE scanConversations(service, conversations, k + 1,
                           scanItems(service, conversations[k], 1, acc))

\* Array.prototype.sort by timestamp: stable, so results of one timestamp
\* keep their order
RECURSIVE sortByTimestamp(_)
sortByTimestamp(results) ==
    IF Len(results) <= 1
    THEN results
    ELSE LET x == results[Len(results)]
             sorted == sortByTimestamp(SubSeq(results, 1, Len(results) - 1))
             Before(r) == r.timestamp <= x.timestamp
             After(r) == r.timestamp > x.timestamp
         IN SelectSeq(sorted, Before) \o <<x>> \o SelectSeq(sorted, After)

\* extractSpecWorkflowResults(conversations): the sorted results and the
\* errors reported on the way
extractSpecWorkflowResults(service, conversations) ==
    LET acc == scanConversations(service, conversations, 1,
                                 Scan(<<>>, <<>>, <<>>))
    IN [results |-> sortByTimestamp(acc.results), warnings |-> acc.warnings]

\* monitorSession(session, taskId): the counts of the last result, or null
monitorSession(service, session) ==
    LET extracted == extractSpecWorkflowResults(service, session)
        toolResults == extracted.results
    IN IF Len(toolResults) = 0
       THEN [progress |-> NoReport, warnings |-> extracted.warnings]
       ELSE [progress |-> Report(toolResults[Len(toolResults)].total,
                                 toolResults[Len(toolResults)].completed),
             warnings |-> extracted.warnings]

\* the session file gains an entry; what was read before is out of date
SessionAppend(entry) ==
    /\ Len(monitor.session) < MaxEntries
    /\ monitor' = [NoMonitor EXCEPT
                     !.session = Append(monitor.session,
                                        Conversation(entry.type,
                                                     Len(monitor.session) + 1,
                                                     entry.content))]
    /\ UNCHANGED <<tasks, events, last, nextId, loops, conts, now, sweeps,
                   backgroundTaskService, streams, automation>>

\* monitorSession is called with the session as it is, by either service
MonitorSession(service) ==
    LET m == monitorSession(service, monitor.session) IN
    /\ monitor.called = ""
    /\ monitor' = [monitor EXCEPT !.called = service,
                                  !.progress = m.progress,
                                  !.warnings = m.warnings]
    /\ UNCHANGED <<tasks, events, last, nextId, loops, conts, now, sweeps,
                   backgroundTaskService, streams, automation>>

NextMonitor ==
    \/ \E entry \in EntryInputs : SessionAppend(entry)
    \/ \E service \in {"strict", "graceful"} : MonitorSession(service)

SpecMonitor == Init /\ [][NextMonitor]_vars


---------------------------------------------------------------------------
(* Properties of progress extraction (SpecMonitor) *)

\* C14: for a transcript without any tool call whose name starts with
\* mcp__spec-workflow__, monitorSession returns null whatever tool results
\* the transcript holds, no error is thrown or reported on the way, and the
\* workflow status of a spec-workflow task is no_activity.
C14_NoTrackedCallMeansNoActivity ==
    (/\ monitor.called # ""
     /\ \A k \in 1..Len(monitor.session) :
        \A i \in 1..Len(monitor.session[k].content) :
           LET item == monitor.session[k].content[i] IN
           ~(/\ item.type = "tool_use"
             /\ Len(item.name) >= 3
             /\ item.name[1] = "mcp"
             /\ item.name[2] = "spec-workflow"))
    => /\ monitor.progress = NoReport
       /\ monitor.warnings = <<>>
       /\ \A setup \in Setups :
             setup.completionCondition = "spec-workflow" =>
                detectWorkflowStatus(
                    RunningTask(1, setup, 1, 1, now),
                    [throws |-> FALSE, report |-> monitor.progress])
                = "no_activity"

\* C14's case: the transcript holds a call of another tool and its result,
\* a payload that would fail the schema, and monitorSession has run
C14_OtherToolResultIgnored ==
    /\ monitor.called = "strict"
    /\ Len(monitor.session) = 2
    /\ monitor.session[1].content = <<ToolUse(OtherTool, 3)>>
    /\ monitor.session[2].content = <<ToolResultItem(3, TotalOnlyPayload)>>


\* C15: a payload that parses as {success, message, data} without a
\* summary is skipped by monitorSession of either service: taking the
\* entries with such a payload out of the transcript changes neither what
\* monitorSession returns nor what is reported, and a transcript whose tool
\* results all have such a payload gives null with nothing reported.
C15_PayloadWithoutSummaryIsSkipped ==
    monitor.called # "" =>
       LET WithoutSummary(conversation) ==
              /\ conversation.type = "user"
              /\ \A i \in 1..Len(conversation.content) :
                    LET p == conversation.content[i].content IN
                    /\ p.form \in {"string", "array"}
                    /\ p.syntax /\ p.hasSuccess /\ p.hasMessage /\ p.hasData
                    /\ ~p.hasSummary
           Other(conversation) == ~WithoutSummary(conversation)
           rest == monitorSession(monitor.called,
                                  SelectSeq(monitor.session, Other))
       IN /\ monitor.progress = rest.progress
          /\ monitor.warnings = rest.warnings
          /\ (\A k \in 1..Len(monitor.session) :
                 monitor.session[k].type = "user"
                    => WithoutSummary(monitor.session[k]))
             => /\ monitor.progress = NoReport
                /\ monitor.warnings = <<>>


\* C16: a payload that is JSON but fails the schema gives a structural
\* error that tells the two cases apart: without a summary key the error
\* reports the missing summary; with a summary that lacks total or
\* completed the error names the missing properties and does not report a
\* missing summary.
C16_StructureErrorTellsCasesApart ==
    monitor.called = "strict" =>
       \A k \in 1..Len(monitor.session) :
       \A i \in 1..Len(monitor.session[k].content) :
          LET item == monitor.session[k].content[i]
              p == item.content
              error == parseToolResult(p, k).thrown
              missing == (IF p.total = Undefined THEN <<"total">> ELSE <<>>)
                         \o (IF p.completed = Undefined THEN <<"completed">>
                             ELSE <<>>)
          IN (/\ item.type = "tool_result"
              /\ p.form \in {"string", "array"}
              /\ p.syntax
              /\ p.hasData
              /\ (~p.hasSummary \/ missing # <<>>))
             => /\ error.type = "structure"
                /\ ~p.hasSummary =>
                      error.message =
                         "Spec-workflow data structure missing 'summary'"
                /\ p.hasSummary =>
                      /\ error.message #
                            "Spec-workflow data structure missing 'summary'"
                      /\ error.details = missing
                /\ (item.id \in {1, 2}
                    /\ \E j \in 1..(k - 1) :
                          /\ monitor.session[j].type = "assistant"
                          /\ monitor.session[j].content[1].id = item.id)
                   => \E w \in 1..Len(monitor.warnings) :
                         monitor.warnings[w] = error


---------------------------------------------------------------------------
(* Properties of a continuation whose task is aborted (SpecHandler) *)

\* C17: a task that abortTask aborts while its restart continuation is
\* scheduled is not continued.  abortTask leaves the task failed with its
\* token triggered, so for every scheduled continuation whose task
\* abortTask reaches, the timer's callback on abortTask's result raises in
\* completeTask, before startNewTask, and changes no entry; and while a
\* task is as abortTask left it, no step starts a new task for it: when its
\* continuation fires it is dropped, and a task started in the meantime
\* belongs to the continuation of another task.
C17_AbortedTaskIsNotContinued ==
    /\ [](\A i \in 1..Len(conts), sessionId \in TaskIds :
            LET c == conts[i]
                task == findTaskBySessionId(tasks, sessionId)
                res == abortTask(Reg(tasks), loops, sessionId)
                fired == continuationCallback(Reg(res.reg.tasks), c.task)
            IN (/\ c.kind = "continuation"
                /\ task # NoTask
                /\ task.id = c.task.id)
               => /\ ~res.reg.raised
                  /\ res.loops[c.task.id].aborted
                  /\ completeTask(Reg(res.reg.tasks), c.task.id).raised
                  /\ fired.tasks = res.reg.tasks
                  /\ ~fired.raised)
    /\ [][\A i \in 1..Len(conts) :
             (/\ conts[i].kind = "continuation"
              /\ loops[conts[i].task.id].aborted
              /\ EntriesOf(conts[i].task.id) # {}
              /\ \A k \in EntriesOf(conts[i].task.id) :
                    tasks[k].status = "failed")
             => /\ \/ conts' = conts
                   \/ Len(conts') = Len(conts) /\ conts'[i] = conts[i]
                   \/ conts' = RemoveAt(conts, i)
                   \/ Len(conts') = Len(conts) - 1
                      /\ \E j \in 1..Len(conts') : conts'[j] = conts[i]
                /\ nextId' # nextId
                   => \E j \in 1..Len(conts) :
                         /\ j # i
                         /\ conts[j].task.id # conts[i].task.id
                         /\ conts[j].kind = "continuation"
                         /\ conts'[j].kind = "starting"
                         /\ conts'[j].child = nextId]_vars

\* C17's case: the only task was aborted by abortTask with its continuation
\* scheduled, the continuation has fired, and no second task exists
C17_ContinuationDroppedAfterAbort ==
    /\ loops[1].aborted
    /\ EntriesOf(1) # {}
    /\ StatusOf(1) = "failed"
    /\ conts = <<>>
    /\ nextId = 2
    /\ \A t \in TaskIds \ {1} : loops[t].pc = "none"
    /\ \E k \in 1..Len(events) :
          /\ events[k].type = "navigate_to_project"
          /\ events[k].data.taskId = 1
          /\ events[k].data.reason = "auto_continue_failed"


---------------------------------------------------------------------------
(* Properties of the end of a stream (Spec, SpecState) *)

\* C18: a registered task whose stream has ended without a result message
\* is paused: not completed, not restarted, not left running.  Stated
\* for a stream that delivered a single message, which was no result, and
\* neither threw nor was aborted.
C18_EndWithoutResultPausesTask ==
    \A t \in TaskIds :
        (/\ loops[t].pc = "ended"
         /\ loops[t].resolved
         /\ loops[t].n = 1
         /\ loops[t].lastMessage.type # "result"
         /\ ~loops[t].aborted)
        => /\ StatusOf(t) = "paused"
           /\ \A u \in TaskIds : u > t => loops[u].pc = "none"


---------------------------------------------------------------------------
(* Properties of a failed execution (SpecState) *)

\* C19: when the stream of a registered task throws, the catch block leaves
\* the task failed, whatever its status was; a task whose token was
\* triggered, and a task whose loop ended in the catch block, is failed
\* from then on, whatever decision its loop was applying.
C19_ThrowOrAbortLeavesTaskFailed ==
    /\ \A t \in TaskIds :
          (loops[t].pc = "streaming" /\ EntriesOf(t) # {})
          => LET h == handleExecutionError(Throw(Reg(tasks)), loops[t], t)
             IN \A i \in EntriesOf(t) : h.reg.tasks[i].status = "failed"
    /\ \A t \in TaskIds :
          ((loops[t].aborted \/ loops[t].pc = "caught") /\ EntriesOf(t) # {})
          => StatusOf(t) = "failed"


---------------------------------------------------------------------------
(* A paused task and its stream (Spec, SpecState, SpecFollowUp).  C20 is   *)
(* about a paused task whose stream delivers further messages; the two     *)
(* facts below say why that case does not arise in either controller.      *)

\* a task is paused only when its loop is over: the controller of
\* ClaudeCodeTaskController.ts never pauses, the state-driven one pauses in
\* the decision at the end of the stream
PausedTaskIsNotStreaming ==
    \A t \in TaskIds :
        (\E k \in EntriesOf(t) : tasks[k].status = "paused")
        => loops[t].pc = "ended"

\* no step of either controller takes a registry entry from paused to
\* running, a follow-up message included
NoStepFromPausedToRunning ==
    [][\A k \in 1..Len(tasks) :
          tasks[k].status = "paused"
          => (k <= Len(tasks') /\ tasks'[k].status # "running")]_vars


---------------------------------------------------------------------------
(* Properties of the activity timestamp (SpecState) *)

\* C21: every message consumed from the stream of a registered task leaves
\* the task's registry entry, as aliveTasks shows it, with lastActivity at
\* the time of that message.
C21_MessageAdvancesLastActivity ==
    [][\A t \in TaskIds :
          (/\ loops'[t].n = loops[t].n + 1
           /\ \E i \in 1..Len(tasks') :
                 tasks'[i].id = t /\ isAlive(tasks'[i]))
          => \A i \in 1..Len(tasks') :
                tasks'[i].id = t => tasks'[i].lastActivity = now]_vars


---------------------------------------------------------------------------
(* Properties of the decisions inside the loop (SpecState) *)

\* C22: while the stream of a task is delivering messages, a step of its
\* loop for a message that is no result message neither pauses nor
\* completes the task, and starts no restart.
C22_NoDecisionAppliedBeforeResult ==
    [][\A t \in TaskIds :
          (/\ loops[t].pc \in {"streaming", "detecting"}
           /\ loops'[t] # loops[t]
           /\ ~loops'[t].atEnd
           /\ loops'[t].lastMessage.type # "result")
          => /\ loops'[t].pc # "restarting"
             /\ \A i \in 1..Len(tasks') :
                   (tasks'[i].id = t
                    /\ tasks'[i].status \in {"paused", "completed"})
                   => /\ i <= Len(tasks)
                      /\ tasks[i].status = tasks'[i].status]_vars


---------------------------------------------------------------------------
(* BackgroundTaskService: the periodic check for tasks without activity    *)

\* checkTaskTimeouts calls under way at once
MaxSweeps == 2

\* BackgroundTaskService.timeoutMs: 120 * 1000 ms, in minutes
SweepTimeoutMinutes == 2

\* one call of checkTaskTimeouts: the value of Date.now() it read, the
\* tasks of aliveTasks still to visit (the first is the one being handled),
\* where it stands, and the task whose start it awaits
Sweep(clock, queue, pc, child) ==
    [clock |-> clock, queue |-> queue, pc |-> pc, child |-> child]

\* the ids of a list of tasks, in order
RECURSIVE TaskIdsOf(_)
TaskIdsOf(ts) ==
    IF ts = <<>> THEN <<>> ELSE <<Head(ts).id>> \o TaskIdsOf(Tail(ts))

\* now - task.lastActivity > this.timeoutMs; an undefined lastActivity
\* makes the difference NaN, and the comparison false
isTimedOut(task, clock) ==
    IF task.lastActivity = Undefined
    THEN FALSE
    ELSE clock - task.lastActivity > SweepTimeoutMinutes

\* the configuration the replacement is started with
SweepSetup(task) ==
    [projectId |-> task.projectId, cwd |-> task.cwd,
     completionCondition |-> task.completionCondition,
     autoContinue |-> TRUE, prompt |-> task.originalPrompt]

\* the state a call of checkTaskTimeouts works on
SweepState(r, ls, id, sw) == [reg |-> r, loops |-> ls, nextId |-> id, sweep |-> sw]

\* the outer catch block: the error is logged, the call is over
sweepFailed(r, ls, id, sw) ==
    SweepState(Caught(r), ls, id, [sw EXCEPT !.pc = "done"])

\* the body of the for loop for the first task of the queue, up to the
\* await of startOrContinueTask
sweepTask(r, ls, id, sw) ==
    LET task == findTaskById(r.tasks, Head(sw.queue))
        next == [sw EXCEPT !.queue = Tail(@)]
    IN IF isTimedOut(task, sw.clock) /\ task.status = "running"
       THEN IF task.originalPrompt # ""
            THEN LET res == startOrContinueTask(r.tasks, ls, id,
                                                SweepSetup(task), 0)
                 IN SweepState(r, res.loops, res.nextId,
                               [sw EXCEPT !.pc = "starting",
                                          !.child = res.task])
            ELSE LET a == abortTask(r, ls, task.sessionId) IN
                 IF a.reg.raised
                 THEN sweepFailed(a.reg, ls, id, sw)
                 ELSE SweepState(a.reg, a.loops, id, next)
       ELSE SweepState(r, ls, id, next)

\* the for loop from the first task of the queue on, up to an await or
\* the end of the call
RECURSIVE sweepLoop(_)
sweepLoop(s) ==
    IF s.sweep.pc # "loop" THEN s
    ELSE IF s.sweep.queue = <<>>
    THEN [s EXCEPT !.sweep.pc = "done"]
    ELSE sweepLoop(sweepTask(s.reg, s.loops, s.nextId, s.sweep))

\* the inner catch block: the error event, then abortTask
sweepContinueError(r, ls, id, sw) ==
    LET task == findTaskById(r.tasks, Head(sw.queue))
        r1 == emit(Caught(r),
                   [type |-> "task_continue_error",
                    data |-> [taskId |-> task.id,
                              sessionId |-> task.sessionId,
                              projectId |-> task.projectId]])
        a == abortTask(r1, ls, task.sessionId)
    IN IF a.reg.raised
       THEN sweepFailed(a.reg, ls, id, sw)
       ELSE SweepState(a.reg, a.loops, id,
                       [sw EXCEPT !.queue = Tail(@), !.pc = "loop", !.child = 0])

\* startOrContinueTask has settled: announce the new session and abort the
\* old one, or go to the inner catch block
sweepContinued(r, ls, id, sw, settled) ==
    LET task == findTaskById(r.tasks, Head(sw.queue))
        continuedTask == findTaskById(r.tasks, sw.child)
    IN IF settled # "resolved"
       THEN sweepContinueError(r, ls, id, sw)
       ELSE LET r1 == emit(r, [type |-> "task_session_continued",
                               data |-> [taskId |-> task.id,
                                         oldSessionId |-> task.sessionId,
                                         newSessionId |->
                                            continuedTask.sessionId,
                                         projectId |-> task.projectId]])
                a == abortTask(r1, ls, task.sessionId)
            IN IF a.reg.raised
               THEN sweepContinueError(a.reg, ls, id, sw)
               ELSE SweepState(a.reg, a.loops, id,
                               [sw EXCEPT !.queue = Tail(@), !.pc = "loop",
                                          !.child = 0])

\* checkTaskTimeouts(): read the clock and aliveTasks, then loop
checkTaskTimeouts(ts, ls, id, clock) ==
    sweepLoop(SweepState(Reg(ts), ls, id,
                         Sweep(clock, TaskIdsOf(aliveTasks(ts)), "loop", 0)))

\* a call of checkTaskTimeouts goes on to its next await, or ends
SweepCommit(i, s) ==
    /\ s.nextId <= MaxTasks + 1
    /\ tasks' = s.reg.tasks
    /\ events' = Emitted(s.reg)
    /\ loops' = s.loops
    /\ nextId' = s.nextId
    /\ sweeps' = IF s.sweep.pc = "done"
                 THEN RemoveAt(sweeps, i)
                 ELSE [sweeps EXCEPT ![i] = s.sweep]
    /\ UNCHANGED <<last, conts, now, monitor, streams, automation,
                   backgroundTaskService>>

\* initialize(taskController): the service is given the controller
BackgroundInitialize ==
    /\ backgroundTaskService' =
          [backgroundTaskService EXCEPT !.taskController = TRUE]
    /\ UNCHANGED <<tasks, events, last, nextId, loops, conts, now, monitor,
                   sweeps, streams, automation>>

\* start(): a running service only warns, a service without controller
\* throws; otherwise the interval is armed and the start announced
start(sv) ==
    IF sv.isRunning
    THEN [service |-> sv, events |-> <<>>, raised |-> FALSE]
    ELSE IF ~sv.taskController
    THEN [service |-> sv, events |-> <<>>, raised |-> TRUE]
    ELSE [service |-> [sv EXCEPT !.isRunning = TRUE],
          events |-> <<[type |-> "background_service_started",
                        data |-> [checkIntervalMs |-> 30000,
                                  timeoutMs |-> 120000]]>>,
          raised |-> FALSE]

BackgroundStart ==
    /\ backgroundTaskService' = start(backgroundTaskService).service
    /\ events' = Emitted(start(backgroundTaskService))
    /\ UNCHANGED <<tasks, last, nextId, loops, conts, now, monitor,
                   sweeps, streams, automation>>

\* stop(): the interval is cleared and the stop announced; the calls of
\* checkTaskTimeouts under way go on
stop(sv) ==
    IF ~sv.isRunning
    THEN [service |-> sv, events |-> <<>>]
    ELSE [service |-> [sv EXCEPT !.isRunning = FALSE],
          events |-> <<[type |-> "background_service_stopped"]>>]

BackgroundStop ==
    /\ backgroundTaskService' = stop(backgroundTaskService).service
    /\ events' = Emitted(stop(backgroundTaskService))
    /\ UNCHANGED <<tasks, last, nextId, loops, conts, now, monitor,
                   sweeps, streams, automation>>

\* the interval's timer fires, while the service is running
SweepStart ==
    LET s == checkTaskTimeouts(tasks, loops, nextId, now)
        i == Len(sweeps) + 1
    IN /\ backgroundTaskService.isRunning
       /\ Len(sweeps) < MaxSweeps
       /\ s.nextId <= MaxTasks + 1
       /\ tasks' = s.reg.tasks
       /\ events' = Emitted(s.reg)
       /\ loops' = s.loops
       /\ nextId' = s.nextId
       /\ sweeps' = IF s.sweep.pc = "done" THEN sweeps
                    ELSE Append(sweeps, s.sweep)
       /\ UNCHANGED <<last, conts, now, monitor, streams, automation,
                      backgroundTaskService>>

\* the promise of the task a call started settles
SweepResume(i) ==
    LET sw == sweeps[i]
        settled == loops[sw.child].settled
    IN /\ sw.pc = "starting"
       /\ settled # "pending"
       /\ SweepCommit(i, sweepLoop(sweepContinued(Reg(tasks), loops, nextId,
                                                  sw, settled)))

\* the messages the streams deliver while the service is watched: the
\* one that registers the task
SweepShapes ==
    { shape \in MsgShapes :
         /\ ~shape.error
         /\ shape.hasUuid
         /\ shape.type = "assistant" }

\* the configurations of the tasks the service watches: the spec-workflow
\* ones, with and without a prompt to go on with
SweepSetups == { s \in Setups : s.completionCondition = "spec-workflow" }

\* the state-driven controller with the background service
NextSweep ==
    \/ BackgroundInitialize
    \/ BackgroundStart
    \/ BackgroundStop
    \/ \E s \in SweepSetups : StartFirstTask(s)
    \/ \E sid \in TaskIds : AbortTask(sid)
    \/ AbortAllAliveTasks
    \/ \E t \in TaskIds, shape \in SweepShapes : LoopMessageState(t, shape)
    \/ \E t \in TaskIds : \E outcome \in DetectOutcomes(loops[t]) :
          DetectDone(t, outcome)
    \/ \E t \in TaskIds : RestartResume(t)
    \/ \E t \in TaskIds : LoopEndState(t)
    \/ \E t \in TaskIds : LoopThrow(t)
    \/ Tick
    \/ SweepStart
    \/ \E i \in 1..Len(sweeps) : SweepResume(i)

SpecSweep == Init /\ [][NextSweep]_vars


---------------------------------------------------------------------------
(* Properties of the background service (SpecSweep) *)

\* C23: a call of checkTaskTimeouts handles the first alive task, running
\* or paused, whose lastActivity is older than the threshold: with an
\* originalPrompt it starts a new session with the task's cwd, projectId,
\* completionCondition, autoContinue and prompt, and once that session is
\* established the stale task ends completed; without one the stale task
\* ends failed.
C23_StaleTaskIsContinuedOrFailed ==
    /\ \A t \in TaskIds :
          LET alive == aliveTasks(tasks)
              s == checkTaskTimeouts(tasks, loops, nextId, now)
          IN (/\ alive # <<>>
              /\ Head(alive).id = t
              /\ Head(alive).lastActivity # Undefined
              /\ now - Head(alive).lastActivity > SweepTimeoutMinutes
              /\ nextId <= MaxTasks)
             => IF Head(alive).originalPrompt # ""
                THEN /\ s.nextId = nextId + 1
                     /\ s.loops[nextId].pc = "streaming"
                     /\ s.loops[nextId].baseSessionId = 0
                     /\ s.loops[nextId].setup = TaskSetup(Head(alive))
                ELSE \A i \in EntriesOf(t) : s.reg.tasks[i].status = "failed"
    /\ \A k \in 1..Len(sweeps) :
          LET t == Head(sweeps[k].queue)
              s == sweepContinued(Reg(tasks), loops, nextId, sweeps[k],
                                  "resolved")
          IN (/\ sweeps[k].pc = "starting"
              /\ loops[sweeps[k].child].settled = "resolved"
              /\ isAlive(findTaskById(tasks, t)))
             => \A i \in EntriesOf(t) : s.reg.tasks[i].status = "completed"


\* C24: when the stale task has become completed or failed while the call
\* of checkTaskTimeouts waited for the new session, what the call does
\* next is a no-op for that task: no error event is emitted, the task keeps
\* its status, and the call goes on to the remaining tasks.
C24_SweepOfTerminalTaskIsNoOp ==
    \A k \in 1..Len(sweeps) :
        LET sw == sweeps[k]
            t == Head(sw.queue)
            s == sweepLoop(sweepContinued(Reg(tasks), loops, nextId, sw,
                                          "resolved"))
        IN (/\ sw.pc = "starting"
            /\ loops[sw.child].settled = "resolved"
            /\ ~isAlive(findTaskById(tasks, t)))
           => /\ \A e \in 1..Len(s.reg.events) :
                    s.reg.events[e].type # "task_continue_error"
              /\ \A i \in EntriesOf(t) :
                    s.reg.tasks[i].status = tasks[i].status
              /\ s.sweep.pc = "done" => Tail(s.sweep.queue) = <<>>


\* C25: a task for which a call of checkTaskTimeouts has started a
\* replacement and still waits for it gets no second one: neither the next
\* call of checkTaskTimeouts nor a restart decision of the task's own loop
\* starts a task for it.
C25_AtMostOneReplacement ==
    \A k \in 1..Len(sweeps) :
        LET t == Head(sweeps[k].queue)
            s == checkTaskTimeouts(tasks, loops, nextId, now)
            l == loops[t]
        IN sweeps[k].pc = "starting"
           => /\ ~(s.sweep.pc = "starting" /\ Head(s.sweep.queue) = t)
              /\ l.pc = "detecting"
                 => \A outcome \in ProgressOutcomes(l.reported) :
                       LET decision ==
                              decideTaskAction(
                                 l.claudeState,
                                 detectWorkflowStatus(l.currentTask, outcome),
                                 canTaskAutoContinue(l.currentTask))
                       IN ~(decision.shouldExecute
                            /\ decision.action = "restart")


---------------------------------------------------------------------------
(* Properties of a continuation that fires (SpecHandler) *)

\* the announcement of the session of a registered task
Announcement(projectId, newTask) ==
    [type |-> "navigate_to_session",
     data |-> [projectId |-> projectId, sessionId |-> newTask.sessionId,
               userMessageId |-> newTask.userMessageId,
               reason |-> "auto_continue_success"]]

\* C26: when the delay of a continuation elapses the current task is
\* completed and a new task is started with the same configuration and
\* without the old session id, and nothing is announced yet; when the new
\* task is established its session is announced once, and once more when
\* the fallback timer fires; an announced session is always that of a
\* registered task other than the continued one.
C26_ContinuationCompletesStartsAnnounces ==
    /\ [](\A e \in 1..Len(events) :
             events[e].type = "navigate_to_session"
             => \E j \in 1..Len(tasks) :
                   /\ tasks[j].sessionId = events[e].data.sessionId
                   /\ tasks[j].userMessageId = events[e].data.userMessageId
                   /\ \E i \in 1..Len(tasks) :
                         /\ i # j
                         /\ ~isAlive(tasks[i])
                         /\ tasks[i].sessionId # tasks[j].sessionId)
    /\ [][\A i \in 1..Len(conts) :
             LET c == conts[i]
                 changed == Len(conts') = Len(conts) /\ conts'[i] # c
                 removed == conts' = RemoveAt(conts, i)
             IN /\ (c.kind = "continuation" /\ changed)
                   => /\ \A j \in EntriesOf(c.task.id) :
                            tasks[j].status \in {"running", "paused"}
                            /\ tasks'[j].status = "completed"
                      /\ conts'[i].kind = "starting"
                      /\ conts'[i].child = nextId
                      /\ nextId' = nextId + 1
                      /\ loops'[nextId].pc = "streaming"
                      /\ loops'[nextId].baseSessionId = 0
                      /\ loops'[nextId].setup = TaskSetup(c.task)
                      /\ \A e \in 1..Len(events') :
                            events'[e].type = "task_changed"
                /\ (c.kind = "starting" /\ changed)
                   => /\ loops[c.child].settled = "resolved"
                      /\ conts'[i].kind = "fallback"
                      /\ conts'[i].child = c.child
                      /\ events' = <<Announcement(c.task.projectId,
                                        findTaskById(tasks, c.child))>>
                /\ (c.kind = "fallback" /\ removed)
                   => events' = <<Announcement(c.task.projectId,
                                     findTaskById(tasks, c.child))>>]_vars

\* C26's case: the continuation of task 1 has fired, task 2 was established
\* and announced, and the fallback timer has fired too
C26_FallbackAnnounced ==
    /\ conts = <<>>
    /\ Len(tasks) = 2
    /\ tasks[1].status = "completed"
    /\ loops[2].baseSessionId = 0
    /\ loops[2].pc # "none"
    /\ events = <<Announcement(tasks[1].projectId, tasks[2])>>


\* the event that asks for a manual continuation of a task
ManualContinuation(currentTask) ==
    [type |-> "navigate_to_project",
     data |-> [projectId |-> currentTask.projectId,
               taskId |-> currentTask.id,
               originalPrompt |-> currentTask.originalPrompt,
               reason |-> "auto_continue_failed",
               autoContinue |-> FALSE]]

\* C27: when the start of the new session has failed, the continuation
\* ends by emitting exactly one manual-continuation event for the old task;
\* it announces no session and arms no fallback announcement.
C27_FailedStartAsksForManualContinuation ==
    /\ [](\A i \in 1..Len(conts) :
             conts[i].kind = "fallback"
             => loops[conts[i].child].settled = "resolved")
    /\ [][\A i \in 1..Len(conts) :
             LET c == conts[i] IN
             (c.kind = "starting" /\ loops[c.child].settled = "rejected")
             => /\ Len(conts') = Len(conts) => conts'[i] = c
                /\ conts' = RemoveAt(conts, i)
                   => /\ events' = <<ManualContinuation(c.task)>>
                      /\ tasks' = tasks
                      /\ loops' = loops]_vars

\* C27's case: the continuation of task 1 started task 2, whose start
\* failed, and the manual continuation of task 1 has been asked for
C27_ManualContinuationAfterFailedStart ==
    /\ loops[2].settled = "rejected"
    /\ loops[2].baseSessionId = 0
    /\ conts = <<>>
    /\ events = <<ManualContinuation(findTaskById(tasks, 1))>>
    /\ Len(tasks) = 1


---------------------------------------------------------------------------
(* Properties of the decision at the end of a stream (SpecState) *)

\* C28: the decision at the end of a task's stream is taken only if no
\* decision was executed for any message of that stream.
C28_EndDecisionOnlyWithoutEarlierDecision ==
    [][\A t \in TaskIds :
          (/\ loops[t].pc = "streaming"
           /\ ~loops[t].atEnd
           /\ loops'[t].atEnd)
          => \A k \in 1..loops[t].n : loops[t].execs[k] = 0]_vars


---------------------------------------------------------------------------
(* Properties of the caller's promise (Spec) *)

\* C29: when the loop of a new task is over, by the end of the stream or by
\* an exception, the promise of the caller is settled; if no message with
\* an identifier had arrived it is rejected, and no task is registered.
C29_PromiseSettledWhenLoopIsOver ==
    \A t \in TaskIds :
        loops[t].pc \in {"ended", "caught"}
        => /\ loops[t].settled # "pending"
           /\ ~loops[t].idSeen
              => /\ loops[t].settled = "rejected"
                 /\ EntriesOf(t) = {}


---------------------------------------------------------------------------
(* TaskOrchestrator and TaskExecutor (SpecExecutor).  The executor keeps   *)
(* one processMessageStream closure per query; continueTask starts a       *)
(* closure of its own for the task it continues.                           *)

MaxStreams == 2

\* a processMessageStream closure and its taskSession:
\*   id, setup, baseSessionId   what the taskSession carries
\*   session     the session the query runs in, numbered like the stream
\*   resolved    the closure's flag
\*   settled     the promise of processMessageStream
\*   aborted     taskSession.abortController.signal.aborted
\*   n           messages consumed
\*   pc          streaming | ended | caught
\*   continuing  the closure was started by continueTask
\*   awaited     continueTask still awaits the closure's promise
TaskSession(id, setup, baseSessionId, session, continuing) ==
    [id |-> id, setup |-> setup, baseSessionId |-> baseSessionId,
     session |-> session, resolved |-> FALSE, settled |-> "pending",
     aborted |-> FALSE, n |-> 0, pc |-> "streaming",
     continuing |-> continuing, awaited |-> continuing]

\* TaskExecutor.updateTaskFromMessage: a user or assistant message with a
\* uuid and a session_id gives a running task stamped with the clock
TaskExecutor_updateTaskFromMessage(i, taskSession, message, clock) ==
    IF /\ message.type = "user" \/ message.type = "assistant"
       /\ message.uuid # 0
       /\ message.session_id # 0
    THEN [status |-> "running", id |-> taskSession.id,
          projectId |-> taskSession.setup.projectId,
          cwd |-> taskSession.setup.cwd,
          completionCondition |-> taskSession.setup.completionCondition,
          originalPrompt |-> taskSession.setup.prompt,
          autoContinue |-> taskSession.setup.autoContinue,
          lastActivity |-> clock,
          baseSessionId |-> taskSession.baseSessionId,
          sessionId |-> message.session_id,
          userMessageId |-> message.uuid,
          abortController |-> i]
    ELSE NoTask

\* TaskExecutor.handleMessage: the activity of a running task is written
\* to the registry; the state it detects is only logged
TaskExecutor_handleMessage(r, task, clock) ==
    IF task = NoTask
    THEN r
    ELSE IF task.status = "running"
         THEN updateTask(r, [task EXCEPT !.lastActivity = clock])
         ELSE r

\* TaskExecutor.handleExecutionError: an unresolved promise is rejected,
\* and the task failed if the registry holds it
TaskExecutor_handleExecutionError(r, taskSession) ==
    LET existingTask == findTaskById(r.tasks, taskSession.id)
        r1 == IF existingTask # NoTask
              THEN failTask(Caught(r), taskSession.id)
              ELSE Caught(r)
    IN [reg |-> r1,
        stream |-> [taskSession EXCEPT
                       !.pc = "caught",
                       !.settled = IF taskSession.resolved
                                   THEN @ ELSE "rejected"]]

\* TaskExecutor.continueTask after its await: a rejected promise takes it
\* to its catch block, which fails the task and throws on
TaskExecutor_continueTaskSettled(r, taskSession) ==
    [reg |-> IF taskSession.settled = "rejected"
             THEN Caught(failTask(r, taskSession.id))
             ELSE r,
     stream |-> [taskSession EXCEPT !.awaited = FALSE]]

\* TaskExecutor.continueTask up to its await: the task's activity is
\* written, and a stream for the task's id starts
TaskExecutor_continueTask(r, ss, task, clock) ==
    [reg |-> updateTask(r, [task EXCEPT !.lastActivity = clock]),
     streams |-> Append(ss, TaskSession(task.id, TaskSetup(task),
                                        task.baseSessionId, Len(ss) + 1,
                                        TRUE))]

\* TaskExecutor.executeTask up to its await: a stream for the pending task
TaskExecutor_executeTask(r, ss, id, setup, sessionId) ==
    [reg |-> r,
     streams |-> Append(ss, TaskSession(id, setup, sessionId, Len(ss) + 1,
                                        FALSE))]

\* TaskOrchestrator.startOrContinueTask(config, message), id being what
\* ulid() would hand out
TaskOrchestrator_startOrContinueTask(r, ss, id, setup, sessionId, clock) ==
    LET existingTask == findExistingTask(r.tasks, sessionId) IN
    IF existingTask # NoTask
    THEN LET c == TaskExecutor_continueTask(r, ss, existingTask, clock) IN
         [reg |-> c.reg, streams |-> c.streams, nextId |-> id]
    ELSE LET e == TaskExecutor_executeTask(r, ss, id, setup, sessionId) IN
         [reg |-> e.reg, streams |-> e.streams, nextId |-> id + 1]

\* TaskOrchestrator.abortTask(sessionId)
TaskOrchestrator_abortTask(r, ss, sessionId) ==
    LET task == findTaskBySessionId(r.tasks, sessionId) IN
    IF task = NoTask
    THEN [reg |-> Throw(r), streams |-> ss]
    ELSE [reg |-> failTask(r, task.id),
          streams |-> [ss EXCEPT ![task.abortController].aborted = TRUE]]

\* a client's request to start a task, or to go on in a session
ExecutorRequest(setup, sessionId) ==
    LET res == TaskOrchestrator_startOrContinueTask(
                   Reg(tasks), streams, nextId, setup, sessionId, now)
    IN /\ Len(streams) < MaxStreams
       /\ res.nextId <= MaxTasks + 1
       /\ tasks' = res.reg.tasks
       /\ events' = Emitted(res.reg)
       /\ streams' = res.streams
       /\ nextId' = res.nextId
       /\ Step("startOrContinueTask", sessionId, FALSE)
       /\ UNCHANGED <<loops, conts, now, monitor, sweeps,
                      backgroundTaskService, automation>>

ExecutorAbort(sessionId) ==
    LET res == TaskOrchestrator_abortTask(Reg(tasks), streams, sessionId) IN
    /\ tasks' = res.reg.tasks
    /\ events' = Emitted(res.reg)
    /\ streams' = res.streams
    /\ Step("abortTask", sessionId, res.reg.raised)
    /\ UNCHANGED <<nextId, loops, conts, now, monitor, sweeps,
                   backgroundTaskService, automation>>

\* one iteration of the for-await of processMessageStream
ExecutorMessage(i, shape) ==
    LET st == streams[i]
        message == Message(shape, st.n + 1, st.session)
        currentTask == TaskExecutor_updateTaskFromMessage(i, st, message, now)
        register == shouldRegister(currentTask, st.resolved)
        r1 == IF register THEN addTask(Reg(tasks), currentTask) ELSE Reg(tasks)
        st1 == [st EXCEPT !.n = @ + 1,
                          !.resolved = @ \/ register,
                          !.settled = IF register THEN "resolved" ELSE @]
        r2 == TaskExecutor_handleMessage(r1, currentTask, now)
        h == TaskExecutor_handleExecutionError(r2, st1)
    IN /\ st.pc = "streaming"
       /\ st.n < MaxMsgs
       /\ ~st.aborted
       /\ tasks' = IF r2.raised THEN h.reg.tasks ELSE r2.tasks
       /\ events' = IF r2.raised THEN Emitted(h.reg) ELSE Emitted(r2)
       /\ streams' = [streams EXCEPT ![i] = IF r2.raised THEN h.stream ELSE st1]
       /\ UNCHANGED <<last, nextId, loops, conts, now, monitor, sweeps,
                      backgroundTaskService, automation>>

\* the stream is exhausted: handleStreamEnd only logs
ExecutorEnd(i) ==
    /\ streams[i].pc = "streaming"
    /\ streams' = [streams EXCEPT ![i].pc = "ended"]
    /\ UNCHANGED <<tasks, events, last, nextId, loops, conts, now, monitor,
                   sweeps, backgroundTaskService, automation>>

\* the stream throws (the agent process fails, or was aborted)
ExecutorThrow(i) ==
    LET h == TaskExecutor_handleExecutionError(Throw(Reg(tasks)), streams[i])
    IN /\ streams[i].pc = "streaming"
       /\ tasks' = h.reg.tasks
       /\ events' = Emitted(h.reg)
       /\ streams' = [streams EXCEPT ![i] = h.stream]
       /\ UNCHANGED <<last, nextId, loops, conts, now, monitor, sweeps,
                      backgroundTaskService, automation>>

\* the promise continueTask awaits has settled
ContinueTaskSettle(i) ==
    LET c == TaskExecutor_continueTaskSettled(Reg(tasks), streams[i]) IN
    /\ streams[i].awaited
    /\ streams[i].settled # "pending"
    /\ tasks' = c.reg.tasks
    /\ events' = Emitted(c.reg)
    /\ streams' = [streams EXCEPT ![i] = c.stream]
    /\ UNCHANGED <<last, nextId, loops, conts, now, monitor, sweeps,
                   backgroundTaskService, automation>>

\* the messages the executor's streams deliver: one without an identifier,
\* and a user and an assistant message with one
ExecutorShapes ==
    { shape \in MsgShapes :
        /\ ~shape.error
        /\ ~shape.report.found
        /\ shape.type \in {"system", "user", "assistant"}
        /\ shape.type = "assistant" => shape.hasUuid }
      \cup { [type |-> "user", hasUuid |-> TRUE, error |-> FALSE,
               report |-> NoReport] }

\* the configurations the executor's clients send
ExecutorSetups == { s \in Setups : s.prompt # "" /\ s.autoContinue }

NextExecutor ==
    \/ \E s \in ExecutorSetups, sid \in 0..MaxStreams : ExecutorRequest(s, sid)
    \/ \E sid \in 1..MaxStreams : ExecutorAbort(sid)
    \/ \E i \in 1..Len(streams), shape \in ExecutorShapes :
          ExecutorMessage(i, shape)
    \/ \E i \in 1..Len(streams) : ExecutorEnd(i)
    \/ \E i \in 1..Len(streams) : ExecutorThrow(i)
    \/ \E i \in 1..Len(streams) : ContinueTaskSettle(i)
    \/ Tick

SpecExecutor == Init /\ [][NextExecutor]_vars

\* C30: the registry never holds two entries with the same task id, also
\* after a follow-up message has continued an existing task.
C30_TaskIdsAreUnique ==
    \A i, j \in 1..Len(tasks) : tasks[i].id = tasks[j].id => i = j


---------------------------------------------------------------------------
(* detection/StateDetector.ts, the detector the TaskExecutor consults, and *)
(* the properties of both detectors.                                       *)

\* StateDetector.hasError(message); NoMsg is a null message
StateDetector_hasError(message) ==
    IF message = NoMsg
    THEN FALSE
    ELSE \/ message.type = "error"
         \/ message.error
         \/ message.type = "system" /\ message.contentError

StateDetector_hasTimedOut(lastActivity, clock) ==
    IF NoTimestamp(lastActivity)
    THEN FALSE
    ELSE clock - lastActivity > TimeoutMinutes

\* StateDetector.detectActivity: the three rules in their order
StateDetector_detectActivity(context) ==
    LET messageType == context.lastMessage.type
        isToolActivity == messageType \in {"tool_use", "tool_result"}
        isFinishedResponse ==
            context.isLastMessage /\ messageType = "assistant"
        isOngoingActivity ==
            ~context.isLastMessage /\ messageType \in {"user", "assistant"}
    IN IF isToolActivity THEN "running"
       ELSE IF isFinishedResponse THEN "idle"
       ELSE IF isOngoingActivity THEN "running"
       ELSE "idle"

StateDetector_detectState(context, clock) ==
    IF StateDetector_hasError(context.lastMessage) THEN "error"
    ELSE IF StateDetector_hasTimedOut(context.lastActivity, clock) THEN "idle"
    ELSE StateDetector_detectActivity(context)

\* the messages and contexts the detectors are asked about
MessageTypes ==
    {"user", "assistant", "system", "result", "tool_use", "tool_result",
     "error"}

DetectorMessages ==
    { [type |-> ty, uuid |-> 1, session_id |-> 1, error |-> err,
       contentError |-> ce] :
         ty \in MessageTypes, err \in BOOLEAN, ce \in BOOLEAN }

DetectorContexts ==
    { StateContext(m, isLast, la) :
         m \in DetectorMessages, isLast \in BOOLEAN,
         la \in {Undefined} \cup (1..MaxTime) }

\* C31: at every time the clock reaches, and for every message, position
\* and lastActivity, both detectors follow the priority order: a message
\* with an explicit error marker (type error, or an error field) gives
\* error; any other message gives idle whenever the clock is more than two
\* minutes past lastActivity, whatever its type, position and content; and
\* only a message without a marker that is not timed out is judged by its
\* content.
C31_ErrorThenTimeoutThenContent ==
    \A c \in DetectorContexts :
        LET marker == c.lastMessage.type = "error" \/ c.lastMessage.error
            stale == /\ c.lastActivity # Undefined
                     /\ now - c.lastActivity > TimeoutMinutes
        IN /\ marker
              => /\ detectState(c, now) = "error"
                 /\ StateDetector_detectState(c, now) = "error"
           /\ (~marker /\ stale)
              => /\ detectState(c, now) = "idle"
                 /\ StateDetector_detectState(c, now) = "idle"
           /\ (~marker /\ ~stale /\ ~c.lastMessage.contentError)
              => /\ detectState(c, now)
                       = IF isActivelyProcessing(c) THEN "running" ELSE "idle"
                 /\ StateDetector_detectState(c, now)
                       = StateDetector_detectActivity(c)


\* C32: when no error rule matches and no timeout applies, both detectors
\* give running for a tool invocation or a tool result at any position,
\* idle for a last message that is an agent response, and for every other
\* message running when it is not last and idle when it is last.
C32_ActivityFollowsTypeAndPosition ==
    \A c \in DetectorContexts :
        LET messageType == c.lastMessage.type
            stale == /\ c.lastActivity # Undefined
                     /\ now - c.lastActivity > TimeoutMinutes
            expected ==
                IF messageType \in {"tool_use", "tool_result"} THEN "running"
                ELSE IF c.isLastMessage THEN "idle"
                ELSE "running"
        IN /\ (~stale /\ ~hasError(c)) => detectState(c, now) = expected
           /\ (~stale /\ ~StateDetector_hasError(c.lastMessage))
              => StateDetector_detectState(c, now) = expected


\* the results a transcript holds, in transcript order: what the scan
\* collected before sorting
ParsedInOrder(service, session) ==
    scanConversations(service, session, 1, Scan(<<>>, <<>>, <<>>)).results

\* C33: for every transcript with at least one successfully parsed progress
\* result, monitorSession returns the counts of the one that comes last in
\* transcript order.
C33_ProgressIsLastResultOfTranscript ==
    monitor.called # ""
    => LET parsed == ParsedInOrder(monitor.called, monitor.session) IN
       Len(parsed) > 0
       => monitor.progress = Report(parsed[Len(parsed)].total,
                                    parsed[Len(parsed)].completed)


\* C34: every progress monitorSession produces satisfies
\* 0 <= completedTasks <= totalTasks; a summary that reports more
\* completed tasks than there are is never turned into a progress.
C34_CompletedNeverExceedsTotal ==
    (monitor.called # "" /\ monitor.progress.found)
    => /\ 0 <= monitor.progress.completed
       /\ monitor.progress.completed <= monitor.progress.total


---------------------------------------------------------------------------
(* Properties of the derived workflow status (SpecState) *)

\* what reading a transcript can give the detector: an exception, no
\* progress, or a progress with any counts
DetectionOutcomes ==
    { [throws |-> th, report |-> rep] :
         th \in BOOLEAN,
         rep \in {NoReport} \cup { Report(total, completed) :
                                      total \in 0..3, completed \in 0..3 } }

\* C35: the workflow status is completed exactly when progress was found
\* with total > 0 and total = completed, in_progress exactly when progress
\* was found and that fails, no_activity exactly when no progress was found
\* for a tracked task, and unknown exactly when the task has no tracked
\* completion condition or the detection raised; for every completion
\* condition, that of the controller's tasks included.
C35_WorkflowStatusFollowsProgress ==
    \A cc \in {"spec-workflow", "manual", ""}
                \cup { loops[t].setup.completionCondition : t \in TaskIds } :
    \A outcome \in DetectionOutcomes :
        LET ws == detectWorkflowStatus([completionCondition |-> cc], outcome)
            read == cc = "spec-workflow" /\ ~outcome.throws
            found == outcome.report.found
            all == /\ outcome.report.total > 0
                   /\ outcome.report.total = outcome.report.completed
        IN /\ ws = "completed" <=> (read /\ found /\ all)
           /\ ws = "in_progress" <=> (read /\ found /\ ~all)
           /\ ws = "no_activity" <=> (read /\ ~found)
           /\ ws = "unknown" <=> ~read

\* C35's case: the stream of a spec-workflow task ended without an error,
\* its transcript reported every task completed, and the decision taken on
\* that status completed the task
C35_CompletedWorkflowDetectedAtEnd ==
    \E t \in TaskIds :
        /\ loops[t].pc = "ended"
        /\ loops[t].atEnd
        /\ ~loops[t].lastMessage.error
        /\ loops[t].currentTask # NoTask
        /\ loops[t].currentTask.completionCondition = "spec-workflow"
        /\ loops[t].reported.found
        /\ loops[t].reported.total = loops[t].reported.completed
        /\ loops[t].execs[loops[t].n] = 1
        /\ StatusOf(t) = "completed"


---------------------------------------------------------------------------
(* Properties that join progress extraction and the decision (SpecMonitor) *)

\* C36: when the extraction met a payload it could not parse or validate,
\* nothing is thrown and the decision for the idle task, taken on what
\* monitorSession returned, is pause; by the state-driven decision and by
\* SpecWorkflowHandler.handleCompletion alike.
C36_InvalidPayloadGivesPause ==
    (monitor.called # "" /\ monitor.warnings # <<>>)
    => \A setup \in { s \in Setups : s.completionCondition = "spec-workflow" } :
          LET task == RunningTask(1, setup, 1, 1, now)
              outcome == [throws |-> FALSE, report |-> monitor.progress]
              decision == decideTaskAction("idle",
                              detectWorkflowStatus(task, outcome),
                              canTaskAutoContinue(task))
              handled == handleCompletion(addTask(Reg(<<>>), task), <<>>,
                                          task, outcome)
          IN /\ decision.action = "pause"
             /\ handled.conts = <<>>
             /\ ~handled.reg.raised
             /\ handled.reg.tasks[1].status = "paused"


---------------------------------------------------------------------------
(* AutomationController (SpecAutomation): automations started and          *)
(* cancelled by a client, each with a monitoring timer that reads the      *)
(* session's transcript, over the controller of ClaudeCodeTaskController.ts *)
(*                                                                         *)
(* automation.objects   the ActiveTask objects ever created; a timer and   *)
(*                      a call under way keep their object after the map   *)
(*                      dropped it; inFlight counts the object's           *)
(*                      checkTaskProgress calls awaiting getSessionDetail, *)
(*                      removals the 60-second timers armed for it         *)
(* automation.map       activeTaskMap: task id -> object, 0 for none       *)
(* automation.starts    startAutomation calls awaiting startOrContinueTask *)
(* automation.log       the automation events emitted, in order            *)
(* automation.ticks     the firings of the monitoring timers so far        *)
(* automation.returned  what the last public call returned                 *)

\* AutomationController.maxRetries
maxRetries == 3

\* firings of the monitoring timer of one automation
MaxChecks == 4

\* firings of the monitoring timers while automations are started again
MaxChecksUnderStarts == 2

\* the task configurations a client sends
AutomationConfigs ==
    { [id |-> id, projectId |-> "p1", prompt |-> "P"] : id \in AutomationIds }

\* what startAutomation hands to startOrContinueTask: cwd and projectId,
\* no completion condition, no autoContinue, and the prompt
AutomationSetup(config) ==
    [projectId |-> config.projectId, cwd |-> "/w1",
     completionCondition |-> "", autoContinue |-> FALSE,
     prompt |-> config.prompt]

ActiveTask(config, task, sessionId) ==
    [taskConfig |-> config, claudeCodeTask |-> task, sessionId |-> sessionId,
     status |-> "running", retryCount |-> 0, currentProgress |-> NoReport,
     lastError |-> "", monitoringInterval |-> FALSE, inFlight |-> 0,
     completing |-> 0, removals |-> 0]

AutomationEvent(type, taskId) == [type |-> type, taskId |-> taskId]

Returned(op, id, value) == [op |-> op, id |-> id, value |-> value]

\* what getSessionDetail gives: null, or the session with its transcript
NoSession == [found |-> FALSE, conversations |-> <<>>]

SessionDetail(conversations) ==
    [found |-> TRUE, conversations |-> conversations]

\* a transcript with one tracked call and its result
ProgressTranscript(payload) ==
    << Conversation("assistant", 1, <<ToolUse(ManageTasksTool, 1)>>),
       Conversation("user", 2, <<ToolResultItem(1, payload)>>) >>

\* the reads of the monitoring timer: no session, no tracked call yet,
\* work in progress, all done, a summary without inProgress and pending,
\* and a summary with more completed tasks than tasks
SessionReads ==
    { NoSession, SessionDetail(<<>>),
      SessionDetail(ProgressTranscript(CountsPayload(2, 1))),
      SessionDetail(ProgressTranscript(CountsPayload(2, 2))),
      SessionDetail(ProgressTranscript(SummaryPayload(2, 2))),
      SessionDetail(ProgressTranscript(CountsPayload(2, 3))) }

\* the TaskProgress monitorSession builds: the counts of the latest result
\* and all the results
TaskProgressOf(latest, toolResults) ==
    [found |-> latest.found, total |-> latest.total,
     completed |-> latest.completed, toolResults |-> toolResults]

TaskProgress(session) ==
    TaskProgressOf(
       monitorSession("strict", session.conversations).progress,
       extractSpecWorkflowResults("strict", session.conversations).results)

\* validateTaskProgress: TaskProgressSchema.safeParse(data).success, for a
\* task id that is a UUID
validateTaskProgress(progress) ==
    /\ progress.total >= 0
    /\ progress.completed >= 0
    /\ \A i \in 1..Len(progress.toolResults) :
          /\ progress.toolResults[i].total >= 0
          /\ progress.toolResults[i].completed >= 0
          /\ progress.toolResults[i].hasCounts
    /\ progress.completed <= progress.total

\* TaskProgressTracker.validateProgressData: success or a validation error
validateProgressData(progress) == validateTaskProgress(progress)

\* AutomationController.detectTaskCompletion
detectTaskCompletion(progress) ==
    IF ~validateProgressData(progress)
    THEN [isComplete |-> FALSE, error |-> TRUE]
    ELSE [isComplete |-> isAllTasksCompleted(progress), error |-> FALSE]

startTaskMonitoring(a, o) ==
    [a EXCEPT !.objects[o].monitoringInterval = TRUE]

stopTaskMonitoring(a, o) ==
    [a EXCEPT !.objects[o].monitoringInterval = FALSE]

\* Map.prototype.delete on activeTaskMap
MapDelete(a, id) == [a EXCEPT !.map[id] = 0]

automationEmit(a, type, o) ==
    [a EXCEPT !.log = Append(@, AutomationEvent(type,
                                                a.objects[o].taskConfig.id))]

\* handleMonitoringError: count the error; at maxRetries stop the timer,
\* mark the task, emit the error and drop the task from the map
handleMonitoringError(a, o, error) ==
    LET a1 == [a EXCEPT !.objects[o].lastError = error,
                        !.objects[o].retryCount = @ + 1]
    IN IF a1.objects[o].retryCount >= maxRetries
       THEN MapDelete(
              automationEmit(
                [stopTaskMonitoring(a1, o) EXCEPT !.objects[o].status = "error"],
                "task_automation_error", o),
              a1.objects[o].taskConfig.id)
       ELSE a1

\* handleTaskCompletion: stop the timer, mark the task, emit the
\* completion and arm one more timer that drops the task from the map
handleTaskCompletion(a, o) ==
    [automationEmit(
        [stopTaskMonitoring(a, o) EXCEPT !.objects[o].status = "completed"],
        "task_automation_completed", o)
     EXCEPT !.objects[o].removals = @ + 1]

\* checkTaskProgress from the completion check on: a completion is
\* handled and the call waits for handleTaskCompletion's promise; otherwise
\* the validation error is handled and the progress event emitted
checkTaskProgressCompletion(a, o, completionResult) ==
    IF completionResult.isComplete
    THEN [handleTaskCompletion(a, o) EXCEPT !.objects[o].completing = @ + 1]
    ELSE automationEmit(
            IF completionResult.error
            THEN handleMonitoringError(a, o, "Progress validation failed")
            ELSE a,
            "task_automation_progress", o)

\* checkTaskProgress after its await of handleTaskCompletion: the progress
\* event is emitted
checkTaskProgressCompleted(a, o) ==
    automationEmit([a EXCEPT !.objects[o].completing = @ - 1],
                   "task_automation_progress", o)

\* checkTaskProgress from the progress on: without progress nothing is
\* done; otherwise the progress is stored and checked for completion
checkTaskProgressMonitored(a, o, progress) ==
    IF ~progress.found
    THEN a
    ELSE checkTaskProgressCompletion(
            [a EXCEPT !.objects[o].currentProgress =
                         Report(progress.total, progress.completed)],
            o, detectTaskCompletion(progress))

\* checkTaskProgress after getSessionDetail settled
checkTaskProgress(a, o, sessionDetail) ==
    IF ~sessionDetail.found
    THEN handleMonitoringError(a, o, "Session not found during monitoring")
    ELSE checkTaskProgressMonitored(a, o, TaskProgress(sessionDetail))

\* startAutomation up to its await
StartAutomation(config) ==
    IF automation.map[config.id] # 0
    THEN /\ automation' =
               [automation EXCEPT
                  !.returned = Returned("startAutomation", config.id, FALSE)]
         /\ UNCHANGED <<tasks, events, last, nextId, loops, conts, now,
                        monitor, sweeps, backgroundTaskService, streams>>
    ELSE LET res == startOrContinueTask(tasks, loops, nextId,
                                        AutomationSetup(config), 0)
         IN /\ res.nextId <= MaxTasks + 1
            /\ loops' = res.loops
            /\ nextId' = res.nextId
            /\ automation' =
                  [automation EXCEPT
                     !.starts = Append(@, [config |-> config,
                                           child |-> res.task])]
            /\ UNCHANGED <<tasks, events, last, conts, now, monitor, sweeps,
                           backgroundTaskService, streams>>

\* the promise of startOrContinueTask settles: the active task is created,
\* mapped and monitored, or the failure is returned
StartAutomationResume(i) ==
    LET s == automation.starts[i]
        settled == loops[s.child].settled
        claudeCodeTask == findTaskById(tasks, s.child)
        o == Len(automation.objects) + 1
        a1 == [automation EXCEPT !.starts = RemoveAt(@, i)]
        a2 == [a1 EXCEPT
                 !.objects = Append(@, ActiveTask(s.config, s.child,
                                                  claudeCodeTask.sessionId)),
                 !.map[s.config.id] = o]
    IN /\ settled # "pending"
       /\ automation' =
             IF settled = "resolved"
             THEN [automationEmit(startTaskMonitoring(a2, o),
                                  "task_automation_started", o)
                   EXCEPT !.returned =
                             Returned("startAutomation", s.config.id, TRUE)]
             ELSE [a1 EXCEPT !.returned =
                                Returned("startAutomation", s.config.id, FALSE)]
       /\ UNCHANGED <<tasks, events, last, nextId, loops, conts, now, monitor,
                      sweeps, backgroundTaskService, streams>>

\* cancelAutomation(taskId): the timer is stopped before the agent task is
\* aborted; an abort that throws is caught and false returned
cancelAutomation(a, r, ls, taskId) ==
    LET o == a.map[taskId] IN
    IF o = 0
    THEN [automation |-> [a EXCEPT !.returned =
                                     Returned("cancelAutomation", taskId, FALSE)],
          reg |-> r, loops |-> ls]
    ELSE LET a1 == stopTaskMonitoring(a, o)
             res == abortTask(r, ls, a.objects[o].sessionId)
         IN IF res.reg.raised
            THEN [automation |->
                     [a1 EXCEPT !.returned =
                                   Returned("cancelAutomation", taskId, FALSE)],
                  reg |-> Caught(res.reg), loops |-> res.loops]
            ELSE [automation |->
                     [MapDelete(
                        automationEmit(
                          [a1 EXCEPT !.objects[o].status = "cancelled"],
                          "task_automation_cancelled", o),
                        taskId)
                      EXCEPT !.returned =
                                Returned("cancelAutomation", taskId, TRUE)],
                  reg |-> res.reg, loops |-> res.loops]

CancelAutomation(taskId) ==
    LET res == cancelAutomation(automation, Reg(tasks), loops, taskId) IN
    /\ automation' = res.automation
    /\ tasks' = res.reg.tasks
    /\ events' = Emitted(res.reg)
    /\ loops' = res.loops
    /\ UNCHANGED <<last, nextId, conts, now, monitor, sweeps,
                   backgroundTaskService, streams>>

\* a call waits for the promise of handleTaskCompletion, which is
\* resolved already: it goes on before any timer fires
Completing ==
    \E o \in 1..Len(automation.objects) : automation.objects[o].completing > 0

\* a monitoring timer fires: checkTaskProgress up to its await
MonitoringTick(o, budget) ==
    /\ ~Completing
    /\ automation.objects[o].monitoringInterval
    /\ automation.ticks < budget
    /\ automation' = [automation EXCEPT !.ticks = @ + 1,
                                        !.objects[o].inFlight = @ + 1]
    /\ UNCHANGED <<tasks, events, last, nextId, loops, conts, now, monitor,
                   sweeps, backgroundTaskService, streams>>

\* getSessionDetail settles inside a checkTaskProgress call
CheckTaskProgressResume(o, sessionDetail) ==
    /\ automation.objects[o].inFlight > 0
    /\ automation' =
          checkTaskProgress([automation EXCEPT !.objects[o].inFlight = @ - 1],
                            o, sessionDetail)
    /\ UNCHANGED <<tasks, events, last, nextId, loops, conts, now, monitor,
                   sweeps, backgroundTaskService, streams>>

\* the promise of handleTaskCompletion settles inside a checkTaskProgress
\* call
CheckTaskProgressCompleted(o) ==
    /\ automation.objects[o].completing > 0
    /\ automation' = checkTaskProgressCompleted(automation, o)
    /\ UNCHANGED <<tasks, events, last, nextId, loops, conts, now, monitor,
                   sweeps, backgroundTaskService, streams>>

\* a minute after a completion, one of the timers armed fires:
\* activeTaskMap.delete, whatever the id is mapped to by then
RemovalFire(o) ==
    /\ ~Completing
    /\ automation.objects[o].removals > 0
    /\ automation' =
          [MapDelete(automation, automation.objects[o].taskConfig.id)
           EXCEPT !.objects[o].removals = @ - 1]
    /\ UNCHANGED <<tasks, events, last, nextId, loops, conts, now, monitor,
                   sweeps, backgroundTaskService, streams>>

\* the messages the agent's streams deliver under an automation: the one
\* that identifies the session; what a stream delivers after that does
\* not reach the automation
AutomationShapes ==
    { shape \in MsgShapes :
        /\ ~shape.error
        /\ ~shape.report.found
        /\ shape.type = "assistant"
        /\ shape.hasUuid }

\* the reads of the monitoring timers while automations are started
\* again: no session, work in progress, all done
SessionReadsUnderStarts ==
    { NoSession,
      SessionDetail(ProgressTranscript(CountsPayload(2, 1))),
      SessionDetail(ProgressTranscript(CountsPayload(2, 2))) }

NextAutomation ==
    \/ \E config \in AutomationConfigs : StartAutomation(config)
    \/ \E i \in 1..Len(automation.starts) : StartAutomationResume(i)
    \/ \E id \in AutomationIds : CancelAutomation(id)
    \/ \E o \in 1..Len(automation.objects) :
          MonitoringTick(o, MaxChecksUnderStarts)
    \/ \E o \in 1..Len(automation.objects), read \in SessionReadsUnderStarts :
          CheckTaskProgressResume(o, read)
    \/ \E o \in 1..Len(automation.objects) : CheckTaskProgressCompleted(o)
    \/ \E o \in 1..Len(automation.objects) : RemovalFire(o)
    \/ \E t \in TaskIds, shape \in AutomationShapes :
          /\ loops[t].settled = "pending"
          /\ LoopMessage(t, shape)
          /\ UNCHANGED automation
    \/ \E t \in TaskIds : LoopEnd(t) /\ UNCHANGED automation
    \/ \E t \in TaskIds : LoopThrow(t) /\ UNCHANGED automation
    \/ AbortAllAliveTasks

SpecAutomation == Init /\ [][NextAutomation]_vars

\* one automation from its start to its end, with its monitoring timer
NextMonitoring ==
    \/ \E config \in AutomationConfigs :
          /\ automation.objects = <<>>
          /\ automation.starts = <<>>
          /\ StartAutomation(config)
    \/ \E i \in 1..Len(automation.starts) : StartAutomationResume(i)
    \/ \E id \in AutomationIds : CancelAutomation(id)
    \/ \E o \in 1..Len(automation.objects) : MonitoringTick(o, MaxChecks)
    \/ \E o \in 1..Len(automation.objects), read \in SessionReads :
          CheckTaskProgressResume(o, read)
    \/ \E o \in 1..Len(automation.objects) : CheckTaskProgressCompleted(o)
    \/ \E o \in 1..Len(automation.objects) : RemovalFire(o)
    \/ \E t \in TaskIds, shape \in AutomationShapes :
          /\ loops[t].settled = "pending"
          /\ LoopMessage(t, shape)
          /\ UNCHANGED automation
    \/ \E t \in TaskIds : LoopEnd(t) /\ UNCHANGED automation
    \/ \E t \in TaskIds : LoopThrow(t) /\ UNCHANGED automation
    \/ AbortAllAliveTasks

SpecMonitoring == Init /\ [][NextMonitoring]_vars


\* the automation events of one type emitted for a task id
AutomationEventsOf(type, taskId) ==
    { k \in 1..Len(automation.log) :
        automation.log[k] = AutomationEvent(type, taskId) }

\* C37: monitoring survives its errors up to the bound of maxRetries:
\* below the bound the task is not marked error and no automation-error
\* event is emitted for it; from the bound on the timer is stopped, the
\* task is out of the active set and exactly one automation-error event
\* was emitted for it
C37_OneErrorEventAtTheBound ==
    \A o \in 1..Len(automation.objects) :
       LET activeTask == automation.objects[o]
           errors == Cardinality(AutomationEventsOf("task_automation_error",
                                                    activeTask.taskConfig.id))
       IN /\ activeTask.retryCount < maxRetries =>
                /\ errors = 0
                /\ activeTask.status # "error"
          /\ activeTask.retryCount >= maxRetries =>
                /\ ~activeTask.monitoringInterval
                /\ automation.map[activeTask.taskConfig.id] # o
                /\ errors = 1


\* C38: for any automation task, no automation-progress event is emitted
\* after its automation-completed event or its automation-error event
C38_NoProgressAfterTheEnd ==
    \A id \in AutomationIds :
       \A k \in AutomationEventsOf("task_automation_progress", id) :
          \A j \in AutomationEventsOf("task_automation_completed", id)
                     \cup AutomationEventsOf("task_automation_error", id) :
             k < j


\* the startAutomation calls for a task id that started an agent session
\* and wait for it
PendingStartsOf(id) ==
    { i \in 1..Len(automation.starts) : automation.starts[i].config.id = id }

\* the monitoring timers running for a task id
TimersOf(id) ==
    { o \in 1..Len(automation.objects) :
        /\ automation.objects[o].taskConfig.id = id
        /\ automation.objects[o].monitoringInterval }

\* C39: for a task id at most one agent session is being started and at
\* most one monitoring timer is active at any time, also when
\* startAutomation is called again for the id while an earlier call waits
\* for its session
C39_OneSessionAndOneTimerPerTask ==
    \A id \in AutomationIds :
       /\ Cardinality(PendingStartsOf(id)) <= 1
       /\ PendingStartsOf(id) # {} => automation.map[id] = 0
       /\ Cardinality(TimersOf(id)) <= 1


\* C40: a cancelAutomation that returns false for a task of the active
\* set leaves the automation as it was before the call: its timer, its
\* status and its place in the active set are unchanged
C40_FailedCancelChangesNothing ==
    [][\A id \in AutomationIds :
          ( /\ CancelAutomation(id)
            /\ automation.map[id] # 0
            /\ ~automation'.returned.value )
          => /\ automation'.objects = automation.objects
             /\ automation'.map = automation.map]_vars

===========================================================================
